---- MODULE Spec2Model ----
(***************************************************************************)
(* TradingClient (packages/trading-sdk): the unified trade() flow with     *)
(* smart routing between the Market Maker and Cross-Chain Access venues.   *)
(*                                                                         *)
(* trade() is an async function: each action below is the code that runs   *)
(* from one resumption (the call itself, or the completion of an awaited   *)
(* request) up to the next await or to the end of the call.  The two       *)
(* venues, the authentication service and the remote configuration are     *)
(* the environment: their replies are chosen nondeterministically.         *)
(***************************************************************************)
EXTENDS Integers, Sequences, FiniteSets, TLC

VARIABLES
    routingStrategy,        \* TradingClient.routingStrategy (client default)
    initialized,            \* TradingClient.initialized
    mmInitialized,          \* MarketMakerClient.initialized
    ccaInitialized,         \* CrossChainAccessClient.initialized
    topupAddress,           \* CrossChainAccessClient.topupAddress is loaded
    pc,                     \* where the current trade() call is suspended
    options,                \* the TradeOptions of the current call
    strategy,               \* local: effective strategy
    isBuy,                  \* local: options.fromAmount !== undefined
    marketMakerOption,      \* local: PlatformOption of Market Maker
    crossChainAccessOption, \* local: PlatformOption of Cross-Chain Access
    selected,               \* local: the PlatformOption the router returned
    primaryError,           \* local: the error caught from the first execution
    outcome,                \* how the current call ended (result or thrown error)
    calls,                  \* the requests this call has issued, with their replies
    nCalls,                 \* number of calls made on this client
    op,                     \* the public method the current call entered by
    locals,                 \* locals of a method other than trade() in progress
    contractAddress,        \* MarketMakerWeb3Client.contractAddress is loaded
    suspended,              \* the calls in progress other than the running one
    fetchers,               \* remoteConfig.ts: the singletons prodFetcher and devFetcher
    decimalsCache           \* Web3Helper.decimalsCache

vars == <<routingStrategy, initialized, mmInitialized, ccaInitialized, topupAddress,
          pc, options, strategy, isBuy, marketMakerOption, crossChainAccessOption,
          selected, primaryError, outcome, calls, nCalls, op, locals,
          contractAddress, suspended, fetchers, decimalsCache>>

-----------------------------------------------------------------------------
(* Bounds of the model *)

MaxCalls == 2       \* calls made one after the other on one client
MaxAmount == 2      \* largest sell/buy amount a Market Maker quote reports
MaxPrice == 2       \* largest ask price a Cross-Chain Access quote reports

-----------------------------------------------------------------------------
(* Values *)

\* The absent value of a string-typed optional; a template literal prints it
\* as "undefined".
Undefined == "undefined"

\* An optional number: absent, or a value.
NoAmount == [undefined |-> TRUE]
Amount(n) == [value |-> n]

\* An absent object (quote, option, error, result).
None == [none |-> TRUE]

BEST_PRICE == "best_price"
CROSS_CHAIN_ACCESS_FIRST == "cross_chain_access_first"
MARKET_MAKER_FIRST == "market_maker_first"
CROSS_CHAIN_ACCESS_ONLY == "cross_chain_access_only"
MARKET_MAKER_ONLY == "market_maker_only"

RoutingStrategy ==
    {BEST_PRICE, CROSS_CHAIN_ACCESS_FIRST, MARKET_MAKER_FIRST,
     CROSS_CHAIN_ACCESS_ONLY, MARKET_MAKER_ONLY}

CCA == "cross_chain_access"
MM == "market_maker"
Platforms == {CCA, MM}

\* JavaScript numbers that the router compares are kept as fractions n/d of
\* naturals; d = 0 with n > 0 is Infinity (1 / 0).
Frac(n, d) == [n |-> n, d |-> d]
Num(n) == Frac(n, 1)
FDiv(a, b) == Frac(a.n * b.d, a.d * b.n)
FIsNaN(a) == a.n = 0 /\ a.d = 0
FIsZero(a) == a.n = 0 /\ a.d # 0
FLeq(a, b) == ~FIsNaN(a) /\ ~FIsNaN(b) /\ a.n * b.d <= b.n * a.d
FGeq(a, b) == FLeq(b, a)

\* An Error object and String(error): "<name>: <message>".
Err(name, message) == [name |-> name, message |-> message]
ErrToString(e) == e.name \o ": " \o e.message

\* Truthiness of an optional string.
Truthy(s) == s # Undefined /\ s # ""

-----------------------------------------------------------------------------
(* routing.ts *)

\* An optional boolean argument.
Bool(b) == [bool |-> b]

createPlatformOption(platform, quote, available, error) ==
    [platform |-> platform,
     quote |-> quote,
     available |-> IF available = None THEN TRUE ELSE available.bool,
     error |-> error]

getEffectiveRate(option) ==
    IF option.quote = None THEN Num(0)
    ELSE IF FIsZero(option.quote.sellAmount) THEN Num(0)
    ELSE FDiv(option.quote.buyAmount, option.quote.sellAmount)

\* errors.join("; ")
JoinErrors(errors) ==
    IF Len(errors) = 0 THEN ""
    ELSE IF Len(errors) = 1 THEN errors[1]
    ELSE errors[1] \o "; " \o errors[2]

Selected(option) == [threw |-> FALSE, option |-> option]
Thrown(error) == [threw |-> TRUE, error |-> error]


\* Variant: the Market Maker error is left out of the message.
NoPlatformsError_FirstOnly(crossChainAccessOption_, marketMakerOption_) ==
    LET e1 == IF Truthy(crossChainAccessOption_.error)
              THEN <<"Cross-Chain Access: " \o crossChainAccessOption_.error>>
              ELSE <<>>
    IN Err("NoLiquidityException", "No platforms available. " \o JoinErrors(e1))

NoPlatformsError(crossChainAccessOption_, marketMakerOption_) ==
    LET e1 == IF Truthy(crossChainAccessOption_.error)
              THEN <<"Cross-Chain Access: " \o crossChainAccessOption_.error>>
              ELSE <<>>
        e2 == IF Truthy(marketMakerOption_.error)
              THEN <<"Market Maker: " \o marketMakerOption_.error>>
              ELSE <<>>
    IN Err("NoLiquidityException", "No platforms available. " \o JoinErrors(e1 \o e2))

\* Variant: a buy takes Cross-Chain Access only when its rate is strictly lower.
BestPrice_StrictBuy(crossChainAccessOption_, marketMakerOption_, isBuy_) ==
    LET crossChainAccessRate == getEffectiveRate(crossChainAccessOption_)
        marketMakerRate == getEffectiveRate(marketMakerOption_)
    IN IF isBuy_
       THEN IF FLeq(crossChainAccessRate, marketMakerRate)
               /\ ~FLeq(marketMakerRate, crossChainAccessRate)
            THEN crossChainAccessOption_ ELSE marketMakerOption_
       ELSE IF FGeq(crossChainAccessRate, marketMakerRate)
            THEN crossChainAccessOption_ ELSE marketMakerOption_

\* Variant: a sell compares the rates the way a buy does.
BestPrice_SellLikeBuy(crossChainAccessOption_, marketMakerOption_, isBuy_) ==
    LET crossChainAccessRate == getEffectiveRate(crossChainAccessOption_)
        marketMakerRate == getEffectiveRate(marketMakerOption_)
    IN IF FLeq(crossChainAccessRate, marketMakerRate)
       THEN crossChainAccessOption_ ELSE marketMakerOption_

BestPrice(crossChainAccessOption_, marketMakerOption_, isBuy_) ==
    LET crossChainAccessRate == getEffectiveRate(crossChainAccessOption_)
        marketMakerRate == getEffectiveRate(marketMakerOption_)
    IN IF isBuy_
       THEN IF FLeq(crossChainAccessRate, marketMakerRate)
            THEN crossChainAccessOption_ ELSE marketMakerOption_
       ELSE IF FGeq(crossChainAccessRate, marketMakerRate)
            THEN crossChainAccessOption_ ELSE marketMakerOption_


\* Variant: an ONLY strategy is routed like the FIRST strategy of its venue.
selectPlatform_OnlyAsFirst(crossChainAccessOption_, marketMakerOption_, strategy_, isBuy_) ==
    LET crossChainAccessAvailable ==
            crossChainAccessOption_.available /\ crossChainAccessOption_.quote # None
        marketMakerAvailable ==
            marketMakerOption_.available /\ marketMakerOption_.quote # None
    IN
    IF ~crossChainAccessAvailable /\ ~marketMakerAvailable
    THEN Thrown(NoPlatformsError(crossChainAccessOption_, marketMakerOption_))
    ELSE IF strategy_ \in {CROSS_CHAIN_ACCESS_ONLY, CROSS_CHAIN_ACCESS_FIRST}
    THEN IF crossChainAccessAvailable THEN Selected(crossChainAccessOption_)
         ELSE Selected(marketMakerOption_)
    ELSE IF strategy_ \in {MARKET_MAKER_ONLY, MARKET_MAKER_FIRST}
    THEN IF marketMakerAvailable THEN Selected(marketMakerOption_)
         ELSE Selected(crossChainAccessOption_)
    ELSE IF crossChainAccessAvailable /\ ~marketMakerAvailable
         THEN Selected(crossChainAccessOption_)
         ELSE IF marketMakerAvailable /\ ~crossChainAccessAvailable
         THEN Selected(marketMakerOption_)
         ELSE Selected(BestPrice(crossChainAccessOption_, marketMakerOption_, isBuy_))

\* Variant: the FIRST strategies compare rates when both venues are available.
selectPlatform_FirstByPrice(crossChainAccessOption_, marketMakerOption_, strategy_, isBuy_) ==
    LET crossChainAccessAvailable ==
            crossChainAccessOption_.available /\ crossChainAccessOption_.quote # None
        marketMakerAvailable ==
            marketMakerOption_.available /\ marketMakerOption_.quote # None
    IN
    IF ~crossChainAccessAvailable /\ ~marketMakerAvailable
    THEN Thrown(NoPlatformsError(crossChainAccessOption_, marketMakerOption_))
    ELSE IF strategy_ = CROSS_CHAIN_ACCESS_ONLY
    THEN IF ~crossChainAccessAvailable
         THEN Thrown(Err("NoLiquidityException",
                  "Cross-Chain Access not available: " \o crossChainAccessOption_.error))
         ELSE Selected(crossChainAccessOption_)
    ELSE IF strategy_ = MARKET_MAKER_ONLY
    THEN IF ~marketMakerAvailable
         THEN Thrown(Err("NoLiquidityException",
                  "Market Maker not available: " \o marketMakerOption_.error))
         ELSE Selected(marketMakerOption_)
    ELSE IF crossChainAccessAvailable /\ ~marketMakerAvailable
         THEN Selected(crossChainAccessOption_)
         ELSE IF marketMakerAvailable /\ ~crossChainAccessAvailable
         THEN Selected(marketMakerOption_)
         ELSE Selected(BestPrice(crossChainAccessOption_, marketMakerOption_, isBuy_))

\* Router.selectPlatform: the option it returns, or the exception it throws.
selectPlatform(crossChainAccessOption_, marketMakerOption_, strategy_, isBuy_) ==
    LET crossChainAccessAvailable ==
            crossChainAccessOption_.available /\ crossChainAccessOption_.quote # None
        marketMakerAvailable ==
            marketMakerOption_.available /\ marketMakerOption_.quote # None
        \* "Fallback (shouldn't reach here)": the last statement of the function
        firstAvailable ==
            IF crossChainAccessAvailable
            THEN Selected(crossChainAccessOption_) ELSE Selected(marketMakerOption_)
    IN
    IF ~crossChainAccessAvailable /\ ~marketMakerAvailable
    THEN Thrown(NoPlatformsError(crossChainAccessOption_, marketMakerOption_))
    ELSE IF strategy_ = CROSS_CHAIN_ACCESS_ONLY
    THEN IF ~crossChainAccessAvailable
         THEN Thrown(Err("NoLiquidityException",
                  "Cross-Chain Access not available: " \o crossChainAccessOption_.error))
         ELSE Selected(crossChainAccessOption_)
    ELSE IF strategy_ = MARKET_MAKER_ONLY
    THEN IF ~marketMakerAvailable
         THEN Thrown(Err("NoLiquidityException",
                  "Market Maker not available: " \o marketMakerOption_.error))
         ELSE Selected(marketMakerOption_)
    ELSE IF strategy_ = CROSS_CHAIN_ACCESS_FIRST
    THEN IF crossChainAccessAvailable THEN Selected(crossChainAccessOption_)
         ELSE IF marketMakerAvailable THEN Selected(marketMakerOption_)
         ELSE firstAvailable
    ELSE IF strategy_ = MARKET_MAKER_FIRST
    THEN IF marketMakerAvailable THEN Selected(marketMakerOption_)
         ELSE IF crossChainAccessAvailable THEN Selected(crossChainAccessOption_)
         ELSE firstAvailable
    ELSE IF strategy_ = BEST_PRICE
    THEN IF crossChainAccessAvailable /\ ~marketMakerAvailable
         THEN Selected(crossChainAccessOption_)
         ELSE IF marketMakerAvailable /\ ~crossChainAccessAvailable
         THEN Selected(marketMakerOption_)
         ELSE Selected(BestPrice(crossChainAccessOption_, marketMakerOption_, isBuy_))
    ELSE firstAvailable

-----------------------------------------------------------------------------
(* The environment: what the venues and services answer *)

Pending == [pending |-> TRUE]
Ok == [ok |-> TRUE]
Fail(error) == [ok |-> FALSE, error |-> error]

\* SwarmAuth.verify: tokens, or an authentication failure.
AuthReplies == {Ok, Fail(Err("AuthenticationError", "Authentication failed"))}

\* getConfigFetcher / getTopupAddress: the address, or a failure.
ConfigReplies == {Ok, Fail(Err("Error", "Configuration not loaded"))}

\* GET /dotc_offers/quote: sellAmount and buyAmount, or one of the
\* exceptions requestQuote throws.
MarketMakerQuoteReplies ==
    {[ok |-> TRUE, sellAmount |-> sa, buyAmount |-> ba] :
        sa \in 0..MaxAmount, ba \in 0..MaxAmount}
    \cup {Fail(Err("QuoteUnavailableException", "Quote unavailable: no offers")),
          Fail(Err("RPQServiceException", "Monthly rate limit reached"))}

\* MarketMakerClient.trade: the transaction hash, or an exception.
MarketMakerTradeReplies ==
    {[ok |-> TRUE, txHash |-> "0xmm"],
     Fail(Err("NoOffersAvailableException", "No suitable offers found for this trade")),
     Fail(Err("MarketMakerWeb3Exception", "Trade execution failed: reverted"))}

\* CrossChainAccessClient.buy / sell: the transfer hash, or an exception: one
\* thrown before any transfer, and the one of a failed order submission, which
\* comes after the transfer to the topup address was confirmed (`transfer` is
\* the hash of that transaction, which the exception does not carry).
CrossChainAccessTradeReplies ==
    {[ok |-> TRUE, txHash |-> "0xcca"],
     Fail(Err("MarketClosedException", "Market is closed")),
     [ok |-> FALSE,
      error |-> Err("OrderFailedException", "Order creation failed: Internal server error"),
      transfer |-> "0xcca"]}

\* RPQClient.getQuote: the unified Quote built from the venue's answer.
MarketMakerQuote(reply) ==
    LET sellAmount == Num(reply.sellAmount)
        buyAmount == Num(reply.buyAmount)
    IN [sellAmount |-> sellAmount,
        buyAmount |-> buyAmount,
        rate |-> IF reply.sellAmount > 0 THEN FDiv(buyAmount, sellAmount) ELSE Num(0),
        source |-> "Market Maker RPQ"]

\* CrossChainAccessClient.getQuote: the unified Quote built from the ask price.
CrossChainAccessQuote(reply) ==
    [sellAmount |-> Num(1),
     buyAmount |-> FDiv(Num(1), Num(reply.askPrice)),
     rate |-> Num(reply.askPrice),
     source |-> "cross_chain_access"]

\* The TradeResult each venue client builds (createTradeResult).
MarketMakerTradeResult(reply) ==
    [txHash |-> reply.txHash, source |-> "market_maker", status |-> "completed"]

CrossChainAccessTradeResult(reply) ==
    [txHash |-> reply.txHash, source |-> "cross_chain_access", status |-> "completed"]

-----------------------------------------------------------------------------
(* The state as one record, and the steps of the code as functions on it *)

Cur ==
    [routingStrategy |-> routingStrategy, initialized |-> initialized,
     mmInitialized |-> mmInitialized, ccaInitialized |-> ccaInitialized,
     topupAddress |-> topupAddress, pc |-> pc, options |-> options,
     strategy |-> strategy, isBuy |-> isBuy,
     marketMakerOption |-> marketMakerOption,
     crossChainAccessOption |-> crossChainAccessOption,
     selected |-> selected, primaryError |-> primaryError,
     outcome |-> outcome, calls |-> calls, nCalls |-> nCalls,
     op |-> op, locals |-> locals,
     contractAddress |-> contractAddress, suspended |-> suspended,
     fetchers |-> fetchers, decimalsCache |-> decimalsCache]

Commit(s) ==
    /\ routingStrategy' = s.routingStrategy
    /\ initialized' = s.initialized
    /\ mmInitialized' = s.mmInitialized
    /\ ccaInitialized' = s.ccaInitialized
    /\ topupAddress' = s.topupAddress
    /\ pc' = s.pc
    /\ options' = s.options
    /\ strategy' = s.strategy
    /\ isBuy' = s.isBuy
    /\ marketMakerOption' = s.marketMakerOption
    /\ crossChainAccessOption' = s.crossChainAccessOption
    /\ selected' = s.selected
    /\ primaryError' = s.primaryError
    /\ outcome' = s.outcome
    /\ calls' = s.calls
    /\ nCalls' = s.nCalls
    /\ op' = s.op
    /\ locals' = s.locals
    /\ contractAddress' = s.contractAddress
    /\ suspended' = s.suspended
    /\ fetchers' = s.fetchers
    /\ decimalsCache' = s.decimalsCache

\* A request is sent and the call suspends at `at` until the reply arrives.
Await(s, kind, venue, at) ==
    [s EXCEPT !.calls = Append(@, [kind |-> kind, venue |-> venue, reply |-> Pending]),
              !.pc = at]

\* The same, for a request whose parameters the log keeps.
AwaitRequest(s, kind, venue, request, at) ==
    [s EXCEPT !.calls = Append(@, [kind |-> kind, venue |-> venue, reply |-> Pending,
                                   request |-> request]),
              !.pc = at]

\* The reply to the awaited request (the last one issued) arrives.
Settle(s, reply) == [s EXCEPT !.calls[Len(s.calls)].reply = reply]

Throw(s, error) ==
    [s EXCEPT !.pc = "done", !.outcome = [kind |-> "error", error |-> error]]

Return(s, result) ==
    [s EXCEPT !.pc = "done", !.outcome = [kind |-> "result", result |-> result]]

\* What a Promise<void> resolves with.
Void == [void |-> TRUE]

\* remoteConfig.ts: `let prodFetcher = null; let devFetcher = null`
NoFetchers == [prodFetcher |-> None, devFetcher |-> None]

\* new Map()
EmptyMap == [key \in {} |-> 0]

-----------------------------------------------------------------------------
(* sdk/client.ts: TradingClient.trade, last step first *)

\* The venue client a platform name dispatches to
\* (selected.platform === "cross_chain_access" ? ... : ...).
executeOn(platform) == IF platform = CCA THEN CCA ELSE MM

\* executeCrossChainAccessTrade(params): the method of the venue client that
\* is called, and its arguments.
executeCrossChainAccessTrade(params) ==
    IF params.usdcAmount # NoAmount
    THEN [method |-> "buy", rwaTokenAddress |-> params.rwaTokenAddress,
          rwaSymbol |-> params.rwaSymbol, rwaAmount |-> NoAmount,
          usdcAmount |-> params.usdcAmount]
    ELSE [method |-> "sell", rwaTokenAddress |-> params.rwaTokenAddress,
          rwaSymbol |-> params.rwaSymbol, rwaAmount |-> params.rwaAmount,
          usdcAmount |-> NoAmount]

\* executeMarketMakerTrade(params)
executeMarketMakerTrade(params) ==
    [method |-> "trade", fromToken |-> params.fromToken, toToken |-> params.toToken,
     fromAmount |-> params.fromAmount, toAmount |-> params.toAmount]

\* The call trade() makes to execute on a platform, from its options.
executionRequest(platform, options_) ==
    IF platform = CCA
    THEN executeCrossChainAccessTrade(
             [rwaTokenAddress |-> "toToken", rwaSymbol |-> options_.toTokenSymbol,
              rwaAmount |-> options_.toAmount, usdcAmount |-> options_.fromAmount])
    ELSE executeMarketMakerTrade(
             [fromToken |-> "fromToken", toToken |-> "toToken",
              fromAmount |-> options_.fromAmount, toAmount |-> options_.toAmount])

\* The TradeResult the called venue client returns for a successful reply.
TradeResultOf(venue, reply) ==
    IF venue = CCA THEN CrossChainAccessTradeResult(reply)
    ELSE MarketMakerTradeResult(reply)


\* Variant: every strategy falls back.
fallbackAllowed_Always(strategy_) == TRUE

\* The strategies for which the catch block tries the other venue.
fallbackAllowed(strategy_) ==
    \/ strategy_ = BEST_PRICE
    \/ strategy_ = CROSS_CHAIN_ACCESS_FIRST
    \/ strategy_ = MARKET_MAKER_FIRST


\* Variant: the fallback goes to the venue that has just failed.
fallbackPlatform_Same(selected_) == selected_.platform

fallbackPlatform(selected_) ==
    IF selected_.platform = CCA THEN MM ELSE CCA

fallbackOption(s) ==
    IF s.selected.platform = CCA THEN s.marketMakerOption ELSE s.crossChainAccessOption


\* Variant: only the fallback's error is reported.
AllPlatformsFailedMessage_FallbackOnly(selected_, error, fallbackError) ==
    "Fallback (" \o (IF selected_.platform = CCA THEN MM ELSE CCA) \o "): "
        \o ErrToString(fallbackError)

AllPlatformsFailedMessage(selected_, error, fallbackError) ==
    "Primary (" \o selected_.platform \o "): " \o ErrToString(error)
        \o ". Fallback (" \o fallbackPlatform(selected_) \o "): "
        \o ErrToString(fallbackError)


\* Variant: the original error is dropped.
TradeFailedMessage_NoCause(error) == "Trade failed"

TradeFailedMessage(error) == "Trade failed: " \o ErrToString(error)


\* Variant: the fallback's success is reported under the selected platform.
fallbackDone_LabelsSelected(s, reply) ==
    IF reply.ok
    THEN Return(s, TradeResultOf(s.selected.platform, reply))
    ELSE Throw(s, Err("AllPlatformsFailedException",
                      AllPlatformsFailedMessage(s.selected, s.primaryError, reply.error)))

\* The fallback execution has completed.
fallbackDone(s, reply) ==
    IF reply.ok
    THEN Return(s, TradeResultOf(s.calls[Len(s.calls)].venue, reply))
    ELSE Throw(s, Err("AllPlatformsFailedException",
                      AllPlatformsFailedMessage(s.selected, s.primaryError, reply.error)))

\* Variant: the fallback is tried whether or not its option is available.
primaryFailed_UnavailableFallback(s, error) ==
    IF fallbackAllowed(s.strategy)
    THEN AwaitRequest([s EXCEPT !.primaryError = error],
                      "execute", executeOn(fallbackPlatform(s.selected)),
                      executionRequest(fallbackPlatform(s.selected), s.options),
                      "await_fallback")
    ELSE Throw(s, Err("TradingException", TradeFailedMessage(error)))

\* The catch block of the first execution.
primaryFailed(s, error) ==
    IF fallbackAllowed(s.strategy) /\ fallbackOption(s).available
    THEN AwaitRequest([s EXCEPT !.primaryError = error],
                      "execute", executeOn(fallbackPlatform(s.selected)),
                      executionRequest(fallbackPlatform(s.selected), s.options),
                      "await_fallback")
    ELSE Throw(s, Err("TradingException", TradeFailedMessage(error)))

\* The execution on the selected platform has completed.
primaryDone(s, reply) ==
    IF reply.ok
    THEN Return(s, TradeResultOf(s.calls[Len(s.calls)].venue, reply))
    ELSE primaryFailed(s, reply.error)

\* Step 2 and the start of step 3: select the platform, start the execution.
selectAndExecute(s) ==
    LET r == selectPlatform(s.crossChainAccessOption, s.marketMakerOption,
                            s.strategy, s.isBuy)
    IN IF r.threw
       THEN Throw(s, r.error)
       ELSE AwaitRequest([s EXCEPT !.selected = r.option],
                         "execute", executeOn(r.option.platform),
                         executionRequest(r.option.platform, s.options),
                         "await_primary")

\* getCrossChainAccessOption, once the quote request has completed.
crossChainAccessOptionOf(reply) ==
    IF reply.ok
    THEN createPlatformOption(CCA, CrossChainAccessQuote(reply), None, Undefined)
    ELSE IF reply.error.name = "MarketClosedException"
    THEN createPlatformOption(CCA, None, Bool(FALSE), "Market closed")
    ELSE createPlatformOption(CCA, None, Bool(FALSE), ErrToString(reply.error))

crossChainAccessQuoteDone(s, reply) ==
    selectAndExecute([s EXCEPT !.crossChainAccessOption = crossChainAccessOptionOf(reply)])

symbolNotProvided == createPlatformOption(CCA, None, Bool(FALSE), "Symbol not provided")

\* getCrossChainAccessOption up to its await.
getCrossChainAccessOption(s) ==
    IF ~Truthy(s.options.toTokenSymbol)
    THEN selectAndExecute([s EXCEPT !.crossChainAccessOption = symbolNotProvided])
    ELSE Await(s, "quote", CCA, "await_cca_quote")

\* getMarketMakerOption, once the quote request has completed.
marketMakerOptionOf(reply) ==
    IF reply.ok
    THEN createPlatformOption(MM, MarketMakerQuote(reply), None, Undefined)
    ELSE createPlatformOption(MM, None, Bool(FALSE), ErrToString(reply.error))


\* Variant: the quote exception is not caught and ends trade().
marketMakerQuoteDone_Rethrows(s, reply) ==
    IF ~reply.ok
    THEN Throw(s, reply.error)
    ELSE LET s1 == [s EXCEPT !.marketMakerOption = marketMakerOptionOf(reply)]
         IN IF Truthy(s.options.toTokenSymbol)
            THEN getCrossChainAccessOption(s1)
            ELSE selectAndExecute([s1 EXCEPT !.crossChainAccessOption = symbolNotProvided])

\* The Market Maker option is known; the Cross-Chain Access one is fetched
\* next when a symbol was given.
marketMakerQuoteDone(s, reply) ==
    LET s1 == [s EXCEPT !.marketMakerOption = marketMakerOptionOf(reply)]
    IN IF Truthy(s.options.toTokenSymbol)
       THEN getCrossChainAccessOption(s1)
       ELSE selectAndExecute([s1 EXCEPT !.crossChainAccessOption = symbolNotProvided])

\* MarketMakerClient.getQuote: `amount ? String(amount) : undefined`, so an
\* absent amount and the amount 0 both become undefined.
StringOrUndefined(amount) ==
    IF amount # NoAmount /\ amount.value # 0 THEN ToString(amount.value) ELSE Undefined

\* The QuoteRequest RPQClient.getQuote hands to requestQuote; a target that
\* is undefined is left out of the query parameters.
QuoteRequest(fromAmount, toAmount) ==
    [targetSellAmount |-> StringOrUndefined(fromAmount),
     targetBuyAmount |-> StringOrUndefined(toAmount)]

\* RPQClient.requestQuote throws before anything is sent (the API key is
\* configured): only when both targets are given.
requestQuoteRejected(quoteRequest) ==
    Truthy(quoteRequest.targetSellAmount) /\ Truthy(quoteRequest.targetBuyAmount)

\* ... and its catch clause wraps that Error.
requestQuoteRejection ==
    Err("RPQServiceException",
        "Failed to get quote: Error: Provide either targetSellAmount OR targetBuyAmount, not both")

\* Step 1: getMarketMakerOption up to its await.
getMarketMakerOption(s) ==
    LET quoteRequest == QuoteRequest(s.options.fromAmount, s.options.toAmount)
    IN IF requestQuoteRejected(quoteRequest)
       THEN marketMakerQuoteDone(s, Fail(requestQuoteRejection))
       ELSE AwaitRequest(s, "quote", MM, quoteRequest, "await_mm_quote")

-----------------------------------------------------------------------------
(* cross-chain-access-sdk marketHours.ts *)

MARKET_OPEN_UTC == [hour |-> 14, minute |-> 30]
MARKET_CLOSE_UTC == [hour |-> 21, minute |-> 0]

\* A Date by its UTC fields (0 = Sunday, 6 = Saturday).
UTCInstant(weekday, hour, minute, second, millisecond) ==
    [weekday |-> weekday, hour |-> hour, minute |-> minute,
     second |-> second, millisecond |-> millisecond]

\* A Date on a full minute.
UTCDate(weekday, hour, minute) == UTCInstant(weekday, hour, minute, 0, 0)

\* date.getTime(), counted from the start of the date's UTC day.
getTime(date) ==
    ((date.hour * 60 + date.minute) * 60 + date.second) * 1000 + date.millisecond

\* The same day at hour:minute:00.000 (setUTCHours(hour, minute, 0, 0)).
setUTCHours(date, hour, minute) == UTCInstant(date.weekday, hour, minute, 0, 0)

timeInMinutes(hour, minute) == hour * 60 + minute

\* Variant: the closing minute itself is outside the trading hours.
isMarketOpen_ClosedAtClose(date) ==
    IF date.weekday = 0 \/ date.weekday = 6
    THEN FALSE
    ELSE LET currentTimeMinutes == timeInMinutes(date.hour, date.minute)
             openTimeMinutes == timeInMinutes(MARKET_OPEN_UTC.hour, MARKET_OPEN_UTC.minute)
             closeTimeMinutes == timeInMinutes(MARKET_CLOSE_UTC.hour, MARKET_CLOSE_UTC.minute)
         IN currentTimeMinutes >= openTimeMinutes /\ currentTimeMinutes < closeTimeMinutes

isMarketOpen(date) ==
    IF date.weekday = 0 \/ date.weekday = 6
    THEN FALSE
    ELSE LET currentTimeMinutes == timeInMinutes(date.hour, date.minute)
             openTimeMinutes == timeInMinutes(MARKET_OPEN_UTC.hour, MARKET_OPEN_UTC.minute)
             closeTimeMinutes == timeInMinutes(MARKET_CLOSE_UTC.hour, MARKET_CLOSE_UTC.minute)
         IN currentTimeMinutes >= openTimeMinutes /\ currentTimeMinutes <= closeTimeMinutes

\* Milliseconds until the market opens.
timeUntilOpen(date) ==
    IF isMarketOpen(date) THEN 0
    ELSE LET currentTimeMinutes == timeInMinutes(date.hour, date.minute)
             openTimeMinutes == timeInMinutes(MARKET_OPEN_UTC.hour, MARKET_OPEN_UTC.minute)
             daysToAdd ==
                 IF date.weekday = 0 THEN 1
                 ELSE IF date.weekday = 6 THEN 2
                 ELSE IF currentTimeMinutes >= openTimeMinutes
                 THEN (IF date.weekday = 5 THEN 3 ELSE 1)
                 ELSE 0
             targetDate == setUTCHours(date, MARKET_OPEN_UTC.hour, MARKET_OPEN_UTC.minute)
         IN daysToAdd * 24 * 60 * 60 * 1000 + getTime(targetDate) - getTime(date)

\* Milliseconds until the market closes.
timeUntilClose(date) ==
    IF ~isMarketOpen(date) THEN 0
    ELSE LET targetDate == setUTCHours(date, MARKET_CLOSE_UTC.hour, MARKET_CLOSE_UTC.minute)
         IN getTime(targetDate) - getTime(date)

\* a % b of JavaScript: the remainder has the sign of a.
Remainder(a, b) == IF a >= 0 THEN a % b ELSE 0 - ((0 - a) % b)

formatDuration(ms) ==
    LET totalMinutes == ms \div (1000 * 60)
    IN ToString(totalMinutes \div 60) \o "h " \o ToString(Remainder(totalMinutes, 60)) \o "m"

getMarketStatus(date) ==
    IF isMarketOpen(date)
    THEN [isOpen |-> TRUE,
          message |-> "Market is open. Closes in " \o formatDuration(timeUntilClose(date))]
    ELSE [isOpen |-> FALSE,
          message |-> "Market is closed. Opens in " \o formatDuration(timeUntilOpen(date))]

-----------------------------------------------------------------------------
(* cross-chain-access-sdk crossChainAccess/models.ts *)

BUY == "buy"
SELL == "sell"

getPriceForSide(quote, side) == IF side = BUY THEN quote.askPrice ELSE quote.bidPrice

\* Variant: blocked transfers do not stop trading.
isTradingAllowed_IgnoresTransfers(status) ==
    /\ ~status.accountBlocked
    /\ ~status.tradingBlocked
    /\ ~status.tradeSuspendedByUser
    /\ status.marketOpen

isTradingAllowed(status) ==
    /\ ~status.accountBlocked
    /\ ~status.tradingBlocked
    /\ ~status.transfersBlocked
    /\ ~status.tradeSuspendedByUser
    /\ status.marketOpen

\* Variant: any buying power is enough.
hasSufficientFunds_Always(funds, requiredAmount) == TRUE

hasSufficientFunds(funds, requiredAmount) == FGeq(funds.buyingPower, requiredAmount)

-----------------------------------------------------------------------------
(* cross-chain-access-sdk sdk/client.ts: CrossChainAccessClient.buy / sell,  *)
(* last step first                                                           *)

RWA_DECIMALS == 9
USDC_DECIMALS == 2

FMul(a, b) == Frac(a.n * b.n, a.d * b.d)

\* Number(x.toFixed(decimals)): the nearest multiple of 10^-decimals, the
\* larger one on a tie; Infinity and NaN stay what they are.
toFixed(x, decimals) ==
    LET scale == 10 ^ decimals
    IN IF x.d = 0 \/ scale % x.d = 0
       THEN x
       ELSE LET q == (x.n * scale) \div x.d
                r == (x.n * scale) % x.d
            IN Frac(IF 2 * r >= x.d THEN q + 1 ELSE q, scale)

UpperCase == "ABCDEFGHIJKLMNOPQRSTUVWXYZ"
LowerCase == "abcdefghijklmnopqrstuvwxyz"

toLowerCaseChar(c) ==
    IF \E i \in 1..Len(UpperCase) : SubSeq(UpperCase, i, i) = c
    THEN LET i == CHOOSE i \in 1..Len(UpperCase) : SubSeq(UpperCase, i, i) = c
         IN SubSeq(LowerCase, i, i)
    ELSE c

RECURSIVE toLowerCase(_)
toLowerCase(s) ==
    IF Len(s) = 0 THEN ""
    ELSE toLowerCaseChar(SubSeq(s, 1, 1)) \o toLowerCase(SubSeq(s, 2, Len(s)))

includes(s, t) ==
    \E i \in 1..(Len(s) + 1 - Len(t)) : SubSeq(s, i, i + Len(t) - 1) = t

\* reasons.join(", ")
RECURSIVE join(_, _)
join(strings, separator) ==
    IF Len(strings) = 0 THEN ""
    ELSE IF Len(strings) = 1 THEN strings[1]
    ELSE strings[1] \o separator \o join(Tail(strings), separator)

\* Step 8: the TradeResult.
crossChainAccessTradeResult(s, orderResponse) ==
    [txHash |-> s.locals.txHash,
     orderId |-> orderResponse.orderId,
     sellTokenAddress |-> s.locals.transferToken,
     sellAmount |-> s.locals.transferAmount,
     buyTokenAddress |-> IF s.locals.orderSide = BUY THEN "rwaTokenAddress" ELSE "usdcAddress",
     buyAmount |-> IF s.locals.orderSide = BUY THEN s.locals.finalRwa ELSE s.locals.finalUsdc,
     rate |-> s.locals.price,
     source |-> CCA,
     status |-> "completed"]

orderDone(s, reply) ==
    IF reply.ok
    THEN Return(s, crossChainAccessTradeResult(s, reply))
    ELSE Throw(s, reply.error)

\* Step 7: create the trading order.
createOrder(s) ==
    AwaitRequest(s, "order", CCA,
                 [txHash |-> s.locals.txHash, side |-> s.locals.orderSide,
                  price |-> s.locals.price, qty |-> s.locals.finalRwa,
                  notional |-> s.locals.finalUsdc],
                 "await_order")

transferDone(s, reply) ==
    IF reply.ok
    THEN createOrder([s EXCEPT !.locals.txHash = reply.txHash])
    ELSE Throw(s, reply.error)

\* Web3Helper.transferToken(toAddress, tokenAddress, amount), waitForReceipt left
\* at its default (true); last step first. The reads of the token's decimals
\* never fail (18 is the fallback) and the amounts stay in normalised units.

\* new TransactionFailedException(reason, txHash)
TransactionFailedException(reason, txHash) ==
    [name |-> "TransactionFailedException",
     message |-> reason \o " (tx: " \o txHash \o ")", txHash |-> txHash]

\* The hash the awaited request (the last one issued) was made with.
awaitedHash(s) == s.calls[Len(s.calls)].request.hash

\* Variant: a receipt of any status counts as the confirmation.
transferReceiptDone_IgnoresRevert(s, reply) ==
    IF ~reply.ok THEN transferDone(s, Fail(reply.error))
    ELSE transferDone(s, [ok |-> TRUE, txHash |-> awaitedHash(s)])

\* The wait for the receipt has ended: a receipt, or the timeout's error.
transferReceiptDone(s, reply) ==
    IF ~reply.ok THEN transferDone(s, Fail(reply.error))
    ELSE IF reply.receipt.status = "reverted"
    THEN transferDone(s, Fail(TransactionFailedException("Transaction reverted",
                                                         awaitedHash(s))))
    ELSE transferDone(s, [ok |-> TRUE, txHash |-> awaitedHash(s)])

\* publicClient.waitForTransactionReceipt({hash, timeout: TX_TIMEOUT_MS})
waitForTransactionReceipt(s, hash, at) ==
    AwaitRequest(s, "receipt", s.calls[Len(s.calls)].venue, [hash |-> hash], at)

\* walletClient.writeContract has returned the hash, or thrown.
transferSubmitted(s, reply) ==
    IF ~reply.ok THEN transferDone(s, Fail(reply.error))
    ELSE waitForTransactionReceipt(s, reply.hash, "await_transfer_receipt")

DEFAULT_GAS_LIMIT == 100000

GAS_BUFFER_MULTIPLIER == Frac(6, 5)

\* Math.ceil of a non-negative number
ceil(x) == (x.n + x.d - 1) \div x.d

\* The gas estimate has arrived, or failed: the default limit is used then.
gasEstimated(s, reply) ==
    LET gasLimit == IF reply.ok
                    THEN ceil(FMul(Num(reply.estimate), GAS_BUFFER_MULTIPLIER))
                    ELSE DEFAULT_GAS_LIMIT
    IN AwaitRequest(s, "transfer", CCA,
                    [to |-> "topupAddress", token |-> s.locals.transferToken,
                     amount |-> s.locals.transferAmount, gas |-> gasLimit],
                    "await_transfer")

estimateContractGas(s) == Await(s, "estimateGas", CCA, "await_transfer_gas")

\* The balance of the token to transfer has been read.
transferBalanceDone(s, reply) ==
    IF ~reply.ok THEN transferDone(s, Fail(reply.error))
    ELSE IF FLeq(reply.balance, s.locals.transferAmount)
            /\ ~FGeq(reply.balance, s.locals.transferAmount)
    THEN transferDone(s, Fail(Err("InsufficientBalanceException", "Insufficient balance")))
    ELSE estimateContractGas(s)

\* Step 6: transfer the tokens to the topup address.
transferToken(s) == Await(s, "balance", CCA, "await_transfer_balance")

\* Step 5: after initialize() the topup address is always loaded, so the
\* second load never happens.
ensureTopupAddress(s) ==
    IF ~s.topupAddress
    THEN Await(s, "config", CCA, "await_transfer_topup")
    ELSE transferToken(s)

\* Step 4, SELL: the RWA balance has been read.
balanceDone(s, reply) ==
    IF ~reply.ok THEN Throw(s, reply.error)
    ELSE IF FLeq(reply.balance, s.locals.finalRwa) /\ ~FGeq(reply.balance, s.locals.finalRwa)
    THEN Throw(s, Err("InsufficientFundsException", "Insufficient RWA balance"))
    ELSE ensureTopupAddress([s EXCEPT !.locals.transferToken = "rwaTokenAddress",
                                      !.locals.transferAmount = s.locals.finalRwa])

\* Step 4, BUY: the account funds have been read.
fundsDone(s, reply) ==
    IF ~reply.ok THEN Throw(s, reply.error)
    ELSE IF ~hasSufficientFunds(reply.funds, s.locals.finalUsdc)
    THEN Throw(s, Err("InsufficientFundsException", "Insufficient buying power"))
    ELSE ensureTopupAddress([s EXCEPT !.locals.transferToken = "usdcAddress",
                                      !.locals.transferAmount = s.locals.finalUsdc])

\* Step 4: check the funds (BUY) or the balance (SELL).
checkFunds(s) ==
    IF s.locals.orderSide = BUY
    THEN Await(s, "funds", CCA, "await_funds")
    ELSE Await(s, "balance", CCA, "await_balance")

\* Step 3: the two amounts from the one given, rounded to the tokens' decimals.
calculateAmounts(params, price) ==
    LET finalUsdc == IF params.rwaAmount # NoAmount
                     THEN FMul(Num(params.rwaAmount.value), price)
                     ELSE Num(params.usdcAmount.value)
        finalRwa == IF params.rwaAmount # NoAmount
                    THEN Num(params.rwaAmount.value)
                    ELSE FDiv(Num(params.usdcAmount.value), price)
    IN [finalRwa |-> toFixed(finalRwa, RWA_DECIMALS),
        finalUsdc |-> toFixed(finalUsdc, USDC_DECIMALS)]

\* Step 2: the real-time quote has arrived.
assetQuoteDone(s, reply) ==
    IF ~reply.ok THEN Throw(s, reply.error)
    ELSE LET price == getPriceForSide(reply.quote, s.locals.orderSide)
             amounts == calculateAmounts(s.options, price)
         IN checkFunds([s EXCEPT !.locals =
                [orderSide |-> s.locals.orderSide, price |-> price,
                 finalRwa |-> amounts.finalRwa, finalUsdc |-> amounts.finalUsdc,
                 transferToken |-> Undefined, transferAmount |-> None,
                 txHash |-> Undefined]])

getAssetQuote(s) == Await(s, "assetQuote", CCA, "await_asset_quote")

\* Step 1, after checkTradingAvailability has returned [isAvailable, message].
tradingAvailabilityChecked(s, isAvailable, message) ==
    IF ~isAvailable
    THEN IF includes(toLowerCase(message), "market") \/ includes(toLowerCase(message), "closed")
         THEN Throw(s, Err("MarketClosedException", message))
         ELSE Throw(s, Err("AccountBlockedException", message))
    ELSE getAssetQuote(s)

\* checkTradingAvailability: the account status has arrived, or the request failed.
accountStatusDone(s, reply) ==
    IF ~reply.ok
    THEN tradingAvailabilityChecked(s, FALSE,
             "Failed to check account status: " \o ErrToString(reply.error))
    ELSE IF ~isTradingAllowed(reply.status)
    THEN LET status == reply.status
             reasons ==
                 (IF status.accountBlocked THEN <<"account blocked">> ELSE <<>>)
                 \o (IF status.tradingBlocked THEN <<"trading blocked">> ELSE <<>>)
                 \o (IF status.transfersBlocked THEN <<"transfers blocked">> ELSE <<>>)
                 \o (IF status.tradeSuspendedByUser THEN <<"suspended by user">> ELSE <<>>)
                 \o (IF ~status.marketOpen THEN <<"market closed">> ELSE <<>>)
         IN tradingAvailabilityChecked(s, FALSE,
                "Trading not available: " \o join(reasons, ", "))
    ELSE tradingAvailabilityChecked(s, TRUE, "Trading is available")

\* checkTradingAvailability: getMarketStatus() of the current time.
marketStatusDone(s, date) ==
    LET marketStatus == getMarketStatus(date)
    IN IF ~marketStatus.isOpen
       THEN tradingAvailabilityChecked(s, FALSE, marketStatus.message)
       ELSE Await(s, "accountStatus", CCA, "await_account_status")

\* checkTradingAvailability on an initialized client, up to the reading of
\* the clock (new Date()).
checkTradingAvailability(s) == Await(s, "clock", CCA, "await_clock")

-----------------------------------------------------------------------------
(* initialize(): TradingClient, MarketMakerClient, CrossChainAccessClient *)

\* `await this.initialize()` has completed: trade() goes on to step 1, a
\* direct call of initialize() resolves.
initializeReturns(s) ==
    IF s.op = "initialize" THEN Return(s, Void) ELSE getMarketMakerOption(s)

\* TradingClient.initialize after both clients: initialized = true.
initializeDone(s) == initializeReturns([s EXCEPT !.initialized = TRUE])

\* CrossChainAccessClient.initialize() has completed: executeTrade goes on to
\* step 1, TradingClient.initialize to its last statement.
crossChainAccessInitializeReturns(s) ==
    IF s.op \in {BUY, SELL} THEN checkTradingAvailability(s) ELSE initializeDone(s)

\* CrossChainAccessClient.initialize after loadTopupAddress.
crossChainAccessInitialized(s) ==
    crossChainAccessInitializeReturns([s EXCEPT !.ccaInitialized = TRUE])

topupAddressDone(s, reply) ==
    IF reply.ok
    THEN crossChainAccessInitialized([s EXCEPT !.topupAddress = TRUE])
    ELSE Throw(s, reply.error)

\* CrossChainAccessClient.loadTopupAddress up to its await.
loadTopupAddress(s) ==
    IF ~s.topupAddress
    THEN Await(s, "config", CCA, "await_topup")
    ELSE crossChainAccessInitialized(s)

\* CrossChainAccessClient.authenticate has completed.
crossChainAccessAuthDone(s, reply) ==
    IF reply.ok THEN loadTopupAddress(s) ELSE Throw(s, reply.error)

\* CrossChainAccessClient.initialize up to its first await.
crossChainAccessInitialize(s) ==
    IF ~s.ccaInitialized
    THEN Await(s, "auth", CCA, "await_cca_auth")
    ELSE crossChainAccessInitializeReturns(s)


\* Variant: the Cross-Chain Access client is initialized whether or not the
\* Market Maker handshake succeeded.
marketMakerAuthDone_GoesOn(s, reply) ==
    crossChainAccessInitialize([s EXCEPT !.mmInitialized = reply.ok])

\* MarketMakerClient.initialize: auth.verify has completed.
marketMakerAuthDone(s, reply) ==
    IF reply.ok
    THEN crossChainAccessInitialize([s EXCEPT !.mmInitialized = TRUE])
    ELSE Throw(s, reply.error)

\* MarketMakerClient.initialize up to its await.
marketMakerInitialize(s) ==
    IF s.mmInitialized
    THEN crossChainAccessInitialize(s)
    ELSE Await(s, "auth", MM, "await_mm_auth")

\* TradingClient.initialize: the two clients one after the other.
initialize(s) ==
    IF ~s.initialized THEN marketMakerInitialize(s) ELSE initializeReturns(s)

-----------------------------------------------------------------------------
(* trade(): the call itself *)


\* Variant: rejects only the request that gives both amounts.
amountsRejected_BothOnly(o) ==
    o.fromAmount # NoAmount /\ o.toAmount # NoAmount

\* The amount check at the top of trade().
amountsRejected(o) ==
    \/ (o.fromAmount # NoAmount /\ o.toAmount # NoAmount)
    \/ (o.fromAmount = NoAmount /\ o.toAmount = NoAmount)

\* trade() from its first line to its first await.
trade(s, o) ==
    IF amountsRejected(o)
    THEN Throw(s, Err("Error", "Must provide either fromAmount OR toAmount, not both"))
    ELSE LET s1 == [s EXCEPT
                      !.strategy = IF o.routingStrategy # Undefined
                                   THEN o.routingStrategy ELSE s.routingStrategy,
                      !.isBuy = o.fromAmount # NoAmount]
         IN IF ~s1.initialized THEN initialize(s1) ELSE getMarketMakerOption(s1)

\* The requests a caller may make.
FromAmounts == {NoAmount, Amount(100)}
ToAmounts == {NoAmount, Amount(10)}
Symbols == {Undefined, "", "AAPL"}

TradeOptions ==
    [fromAmount : FromAmounts, toAmount : ToAmounts, toTokenSymbol : Symbols,
     routingStrategy : RoutingStrategy \cup {Undefined}]

\* A new call of a public method: the locals of the previous one are gone.
NewFrame(s, op_, o) ==
    [s EXCEPT !.options = o, !.strategy = Undefined, !.isBuy = FALSE,
              !.marketMakerOption = None, !.crossChainAccessOption = None,
              !.selected = None, !.primaryError = None, !.outcome = None,
              !.calls = <<>>, !.nCalls = @ + 1, !.op = op_, !.locals = None]

NewCall(s, o) == NewFrame(s, "trade", o)

-----------------------------------------------------------------------------
(* sdk/client.ts: TradingClient.getQuotes, last step first *)

\* `await Promise.all([...])` resumes once both promises have settled.
getQuotesDone(s) ==
    IF s.locals.market_maker # Pending /\ s.locals.cross_chain_access # Pending
    THEN Return(s, s.locals)
    ELSE s

\* getCrossChainAccessQuote settles: the quote, or null on any exception.
getCrossChainAccessQuoteDone(s, reply) ==
    getQuotesDone([s EXCEPT !.locals.cross_chain_access =
                      IF reply.ok THEN CrossChainAccessQuote(reply) ELSE None])

\* Variant: an exception of the Market Maker quote rejects Promise.all.
getMarketMakerQuoteDone_Rethrows(s, reply) ==
    IF reply.ok
    THEN getQuotesDone([s EXCEPT !.locals.market_maker = MarketMakerQuote(reply)])
    ELSE Throw(s, reply.error)

\* getMarketMakerQuote settles: the quote, or null on any exception.
getMarketMakerQuoteDone(s, reply) ==
    getQuotesDone([s EXCEPT !.locals.market_maker =
                      IF reply.ok THEN MarketMakerQuote(reply) ELSE None])

\* params.toTokenSymbol ? getCrossChainAccessQuote(symbol) : Promise.resolve(null)
getCrossChainAccessQuote(s) ==
    IF Truthy(s.options.toTokenSymbol)
    THEN Await(s, "quote", CCA, "await_quotes")
    ELSE getQuotesDone([s EXCEPT !.locals.cross_chain_access = None])

\* getMarketMakerQuote up to its await.
getMarketMakerQuote(s) ==
    LET quoteRequest == QuoteRequest(s.options.fromAmount, s.options.toAmount)
    IN IF requestQuoteRejected(quoteRequest)
       THEN getMarketMakerQuoteDone(s, Fail(requestQuoteRejection))
       ELSE AwaitRequest(s, "quote", MM, quoteRequest, "await_quotes")

\* getQuotes: the two elements of the array given to Promise.all are
\* evaluated one after the other, each up to its own await.
getQuotes(s) ==
    getCrossChainAccessQuote(
        getMarketMakerQuote(
            [s EXCEPT !.locals = [market_maker |-> Pending,
                                  cross_chain_access |-> Pending]]))

QuoteFromAmounts == FromAmounts \cup {Amount(0)}
QuoteToAmounts == ToAmounts \cup {Amount(0)}

QuoteParams ==
    [fromAmount : QuoteFromAmounts, toAmount : QuoteToAmounts, toTokenSymbol : Symbols]

-----------------------------------------------------------------------------
(* The state machine *)

\* new TradingClient(options): routingStrategy ?? BEST_PRICE
Init ==
    /\ \E given \in RoutingStrategy \cup {Undefined} :
          routingStrategy = IF given # Undefined THEN given ELSE BEST_PRICE
    /\ initialized = FALSE
    /\ mmInitialized = FALSE
    /\ ccaInitialized = FALSE
    /\ topupAddress = FALSE
    /\ pc = "idle"
    /\ options = None
    /\ strategy = Undefined
    /\ isBuy = FALSE
    /\ marketMakerOption = None
    /\ crossChainAccessOption = None
    /\ selected = None
    /\ primaryError = None
    /\ outcome = None
    /\ calls = <<>>
    /\ nCalls = 0
    /\ op = "none"
    /\ locals = None
    /\ contractAddress = FALSE
    /\ suspended = <<>>
    /\ fetchers = NoFetchers
    /\ decimalsCache = EmptyMap

Trade ==
    /\ pc \in {"idle", "done"}
    /\ nCalls < MaxCalls
    /\ \E o \in TradeOptions : Commit(trade(NewCall(Cur, o), o))

MarketMakerAuthReply ==
    /\ pc = "await_mm_auth"
    /\ \E r \in AuthReplies : Commit(marketMakerAuthDone(Settle(Cur, r), r))

CrossChainAccessAuthReply ==
    /\ pc = "await_cca_auth"
    /\ \E r \in AuthReplies : Commit(crossChainAccessAuthDone(Settle(Cur, r), r))

TopupAddressReply ==
    /\ pc = "await_topup"
    /\ \E r \in ConfigReplies : Commit(topupAddressDone(Settle(Cur, r), r))

MarketMakerQuoteReply ==
    /\ pc = "await_mm_quote"
    /\ \E r \in MarketMakerQuoteReplies : Commit(marketMakerQuoteDone(Settle(Cur, r), r))

\* The instants a quote is asked at: a Monday at the opening time and a
\* minute after the closing time.
QuoteDates == {UTCDate(1, 14, 30), UTCDate(1, 21, 1)}

\* CrossChainAccessAPIClient.getAssetQuote: the ask price, or one of the two
\* exceptions it throws; `date` is the instant the quote was served at (every
\* price at the opening time, the price 1 after the closing time too).
CrossChainAccessQuoteReplies ==
    {r \in [ok : {TRUE}, askPrice : 0..MaxPrice, date : QuoteDates] :
        r.date = UTCDate(1, 14, 30) \/ r.askPrice = 1}
    \cup {Fail(Err("InvalidSymbolException", "Invalid trading symbol")),
          Fail(Err("QuoteUnavailableException", "Quote unavailable"))}

CrossChainAccessQuoteReply ==
    /\ pc = "await_cca_quote"
    /\ \E r \in CrossChainAccessQuoteReplies :
          Commit(crossChainAccessQuoteDone(Settle(Cur, r), r))

ExecuteReplies(venue) ==
    IF venue = CCA THEN CrossChainAccessTradeReplies ELSE MarketMakerTradeReplies

PrimaryExecutionReply ==
    /\ pc = "await_primary"
    /\ \E r \in ExecuteReplies(calls[Len(calls)].venue) :
          Commit(primaryDone(Settle(Cur, r), r))

FallbackExecutionReply ==
    /\ pc = "await_fallback"
    /\ \E r \in ExecuteReplies(calls[Len(calls)].venue) :
          Commit(fallbackDone(Settle(Cur, r), r))

Next ==
    \/ Trade
    \/ MarketMakerAuthReply
    \/ CrossChainAccessAuthReply
    \/ TopupAddressReply
    \/ MarketMakerQuoteReply
    \/ CrossChainAccessQuoteReply
    \/ PrimaryExecutionReply
    \/ FallbackExecutionReply

Spec == Init /\ [][Next]_vars

-----------------------------------------------------------------------------
(* CrossChainAccessClient on its own: buy() and sell() *)

\* Step 0 of executeTrade: ensure initialization.
executeTrade(s) ==
    IF ~s.ccaInitialized THEN crossChainAccessInitialize(s) ELSE checkTradingAvailability(s)

\* buy(params) and sell(params): the amount check, then executeTrade.
buyOrSell(s, params, orderSide) ==
    IF \/ (params.rwaAmount # NoAmount /\ params.usdcAmount # NoAmount)
       \/ (params.rwaAmount = NoAmount /\ params.usdcAmount = NoAmount)
    THEN Throw(s, Err("Error", "Must provide either rwaAmount OR usdcAmount, not both"))
    ELSE executeTrade([s EXCEPT !.locals = [orderSide |-> orderSide]])

buy(s, params) == buyOrSell(s, params, BUY)
sell(s, params) == buyOrSell(s, params, SELL)

RwaAmounts == {NoAmount, Amount(1)}
UsdcAmounts == {NoAmount, Amount(2)}
CrossChainAccessTradeParams == [rwaAmount : RwaAmounts, usdcAmount : UsdcAmounts]

\* The instants the clock is read at: around the opening and the closing
\* time, on a Sunday, a Monday, a Friday and a Saturday.
Dates ==
    {UTCDate(weekday, t[1], t[2]) :
        weekday \in {0, 1, 5, 6},
        t \in {<<14, 29>>, <<14, 30>>, <<21, 0>>, <<21, 1>>}}

AccountStatus(accountBlocked, tradingBlocked, transfersBlocked, tradeSuspendedByUser, marketOpen) ==
    [accountBlocked |-> accountBlocked, tradingBlocked |-> tradingBlocked,
     transfersBlocked |-> transfersBlocked,
     tradeSuspendedByUser |-> tradeSuspendedByUser, marketOpen |-> marketOpen]

AccountStatusReplies ==
    {[ok |-> TRUE, status |-> status] : status \in
        {AccountStatus(FALSE, FALSE, FALSE, FALSE, TRUE),
         AccountStatus(TRUE, FALSE, FALSE, FALSE, TRUE),
         AccountStatus(FALSE, TRUE, FALSE, FALSE, TRUE),
         AccountStatus(FALSE, FALSE, TRUE, FALSE, TRUE),
         AccountStatus(FALSE, FALSE, FALSE, TRUE, TRUE),
         AccountStatus(FALSE, FALSE, FALSE, FALSE, FALSE),
         AccountStatus(TRUE, FALSE, FALSE, FALSE, FALSE)}}
    \cup {Fail(Err("APIException", "Unauthorized")),
          Fail(Err("Error", "Connection closed"))}

AssetQuoteReplies ==
    {[ok |-> TRUE, quote |-> [askPrice |-> p[1], bidPrice |-> p[2]]] :
        p \in {<<Num(0), Num(0)>>, <<Num(1), Num(1)>>, <<Num(2), Num(1)>>,
               <<Frac(1, 8), Frac(1, 8)>>}}
    \cup {Fail(Err("QuoteUnavailableException", "Quote unavailable"))}

AccountFundsReplies ==
    {[ok |-> TRUE, funds |-> [buyingPower |-> b]] : b \in {Num(0), Num(2)}}
    \cup {Fail(Err("APIException", "Unauthorized"))}

BalanceReplies ==
    {[ok |-> TRUE, balance |-> b] : b \in {Num(0), Num(2)}}
    \cup {Fail(Err("ContractFunctionExecutionError", "balanceOf failed"))}

GasEstimate == 50000

GasEstimateReplies ==
    {[ok |-> TRUE, estimate |-> GasEstimate],
     Fail(Err("EstimateGasExecutionError", "execution reverted"))}

\* What writeContract resolves with: the hash of the submitted transaction,
\* or the wallet's or the node's refusal.
TxHashes == {"0xaaa", "0xbbb"}

TransferReplies ==
    {[ok |-> TRUE, hash |-> h] : h \in TxHashes}
    \cup {Fail(Err("TransactionExecutionError", "User rejected the request"))}

\* How the wait for a receipt ends: mined and successful, mined and reverted,
\* or not mined within TX_TIMEOUT_MS.
ReceiptReplies ==
    {[ok |-> TRUE, receipt |-> [status |-> "success"]],
     [ok |-> TRUE, receipt |-> [status |-> "reverted"]],
     Fail(Err("WaitForTransactionReceiptTimeoutError",
              "Timed out while waiting for transaction"))}

OrderReplies ==
    {[ok |-> TRUE, orderId |-> "order-1"],
     Fail(Err("OrderFailedException", "Order creation failed: Internal server error"))}

Buy ==
    /\ pc \in {"idle", "done"}
    /\ nCalls < MaxCalls
    /\ \E params \in CrossChainAccessTradeParams :
          Commit(buy(NewFrame(Cur, BUY, params), params))

Sell ==
    /\ pc \in {"idle", "done"}
    /\ nCalls < MaxCalls
    /\ \E params \in CrossChainAccessTradeParams :
          Commit(sell(NewFrame(Cur, SELL, params), params))

ClockRead ==
    /\ pc = "await_clock"
    /\ \E date \in Dates :
          Commit(marketStatusDone(Settle(Cur, [ok |-> TRUE, date |-> date]), date))

AccountStatusReply ==
    /\ pc = "await_account_status"
    /\ \E r \in AccountStatusReplies : Commit(accountStatusDone(Settle(Cur, r), r))

AssetQuoteReply ==
    /\ pc = "await_asset_quote"
    /\ \E r \in AssetQuoteReplies : Commit(assetQuoteDone(Settle(Cur, r), r))

AccountFundsReply ==
    /\ pc = "await_funds"
    /\ \E r \in AccountFundsReplies : Commit(fundsDone(Settle(Cur, r), r))

BalanceReply ==
    /\ pc = "await_balance"
    /\ \E r \in BalanceReplies : Commit(balanceDone(Settle(Cur, r), r))

TransferBalanceReply ==
    /\ pc = "await_transfer_balance"
    /\ \E r \in BalanceReplies : Commit(transferBalanceDone(Settle(Cur, r), r))

GasEstimateReply ==
    /\ pc = "await_transfer_gas"
    /\ \E r \in GasEstimateReplies : Commit(gasEstimated(Settle(Cur, r), r))

TransferReply ==
    /\ pc = "await_transfer"
    /\ \E r \in TransferReplies : Commit(transferSubmitted(Settle(Cur, r), r))

TransferReceiptReply ==
    /\ pc = "await_transfer_receipt"
    /\ \E r \in ReceiptReplies : Commit(transferReceiptDone(Settle(Cur, r), r))

OrderReply ==
    /\ pc = "await_order"
    /\ \E r \in OrderReplies : Commit(orderDone(Settle(Cur, r), r))

CrossChainAccessNext ==
    \/ Buy
    \/ Sell
    \/ CrossChainAccessAuthReply
    \/ TopupAddressReply
    \/ ClockRead
    \/ AccountStatusReply
    \/ AssetQuoteReply
    \/ AccountFundsReply
    \/ BalanceReply
    \/ TransferBalanceReply
    \/ GasEstimateReply
    \/ TransferReply
    \/ TransferReceiptReply
    \/ OrderReply

CrossChainAccessSpec == Init /\ [][CrossChainAccessNext]_vars

-----------------------------------------------------------------------------
(* The whole TradingClient: initialize() and getQuotes() called as well *)

Initialize ==
    /\ pc \in {"idle", "done"}
    /\ nCalls < MaxCalls
    /\ Commit(initialize(NewFrame(Cur, "initialize", None)))

GetQuotes ==
    /\ pc \in {"idle", "done"}
    /\ nCalls < MaxCalls
    /\ \E params \in QuoteParams : Commit(getQuotes(NewFrame(Cur, "getQuotes", params)))

\* The requests of the current call that have no reply yet.
PendingCalls(venue) ==
    {i \in 1..Len(calls) : calls[i].venue = venue /\ calls[i].reply = Pending}

SettleAt(s, i, reply) == [s EXCEPT !.calls[i].reply = reply]

GetQuotesMarketMakerReply ==
    /\ pc = "await_quotes"
    /\ \E i \in PendingCalls(MM) : \E r \in MarketMakerQuoteReplies :
          Commit(getMarketMakerQuoteDone(SettleAt(Cur, i, r), r))

GetQuotesCrossChainAccessReply ==
    /\ pc = "await_quotes"
    /\ \E i \in PendingCalls(CCA) : \E r \in CrossChainAccessQuoteReplies :
          Commit(getCrossChainAccessQuoteDone(SettleAt(Cur, i, r), r))

ClientNext ==
    \/ Next
    \/ Initialize
    \/ GetQuotes
    \/ GetQuotesMarketMakerReply
    \/ GetQuotesCrossChainAccessReply

ClientSpec == Init /\ [][ClientNext]_vars

-----------------------------------------------------------------------------
(* What the properties read off a state *)

\* s contains t.
Contains(s, t) ==
    \E i \in 1..(Len(s) + 1 - Len(t)) : SubSeq(s, i, i + Len(t) - 1) = t

IsPending(c) == c.reply = Pending
HasFailed(c) == c.reply # Pending /\ ~c.reply.ok
HasSucceeded(c) == c.reply # Pending /\ c.reply.ok

\* The requests of one kind issued by the current call, in order.
CallsOfKind(cs, kind) == SelectSeq(cs, LAMBDA c : c.kind = kind)
Executions == CallsOfKind(calls, "execute")
QuotesOf(cs, venue) == SelectSeq(cs, LAMBDA c : c.kind = "quote" /\ c.venue = venue)

Failed == pc = "done" /\ outcome # None /\ outcome.kind = "error"
Succeeded == pc = "done" /\ outcome # None /\ outcome.kind = "result"
BothOptionsKnown == marketMakerOption # None /\ crossChainAccessOption # None
OnlyStrategies == {CROSS_CHAIN_ACCESS_ONLY, MARKET_MAKER_ONLY}
NamedVenue(strategy_) == IF strategy_ = CROSS_CHAIN_ACCESS_ONLY THEN CCA ELSE MM
OptionFor(venue) == IF venue = CCA THEN crossChainAccessOption ELSE marketMakerOption
Other(venue) == IF venue = CCA THEN MM ELSE CCA

-----------------------------------------------------------------------------
(* Properties *)

\* C1: a request with both fromAmount and toAmount, or with neither, is
\* rejected by trade() with an error before any request is sent: no
\* authentication, no quote request, no execution.
C1_BothOrNeitherRejectedLocally ==
    (options # None
        /\ ((options.fromAmount = NoAmount) = (options.toAmount = NoAmount)))
    => (Failed /\ outcome.error.name = "Error" /\ calls = <<>>)

C1_Witness ==
    /\ options # None
    /\ options.fromAmount # NoAmount /\ options.toAmount # NoAmount
    /\ ~initialized
    /\ Failed /\ calls = <<>>

\* C2: a failed quote request of one venue becomes that venue's option
\* {available: false, error}; the Cross-Chain Access quote is still requested
\* after the Market Maker quote failed, and when the other venue's quote
\* succeeded and the strategy does not restrict the trade to the failed venue,
\* trade() goes on to execute instead of failing.
C2_QuoteFailureIsolated ==
    \A v \in Platforms :
        \A i \in DOMAIN QuotesOf(calls, v) :
            LET q == QuotesOf(calls, v)[i] IN
            HasFailed(q) =>
                /\ OptionFor(v) # None
                /\ ~OptionFor(v).available
                /\ OptionFor(v).quote = None
                /\ OptionFor(v).error =
                      IF v = CCA /\ q.reply.error.name = "MarketClosedException"
                      THEN "Market closed" ELSE ErrToString(q.reply.error)
                /\ (v = MM /\ Truthy(options.toTokenSymbol)
                        => Len(QuotesOf(calls, CCA)) = 1)
                /\ (Failed => outcome.error # q.reply.error)
                /\ ((/\ Len(QuotesOf(calls, Other(v))) = 1
                     /\ HasSucceeded(QuotesOf(calls, Other(v))[1])
                     /\ ~(strategy \in OnlyStrategies /\ NamedVenue(strategy) = v))
                        => /\ Len(Executions) >= 1
                           /\ Executions[1].venue = Other(v))

C2_Witness ==
    /\ Len(QuotesOf(calls, MM)) = 1 /\ HasFailed(QuotesOf(calls, MM)[1])
    /\ Len(QuotesOf(calls, CCA)) = 1 /\ HasSucceeded(QuotesOf(calls, CCA)[1])
    /\ Succeeded /\ outcome.result.source = CCA

\* C3: when a symbol is given, the Cross-Chain Access quote request is sent
\* while the Market Maker quote request is still in flight (the two quote
\* requests are concurrent).
C3_QuotesConcurrent ==
    [][(Len(QuotesOf(calls, CCA)) = 0 /\ Len(QuotesOf(calls', CCA)) = 1)
        => (Len(QuotesOf(calls', MM)) = 1 /\ IsPending(QuotesOf(calls', MM)[1]))]_vars

\* C4: when both options are unavailable, trade() fails with
\* NoLiquidityException, its message holds the error text of both options,
\* and no execution is requested on either venue.
C4_NoLiquidityWhenBothUnavailable ==
    (BothOptionsKnown /\ ~marketMakerOption.available /\ ~crossChainAccessOption.available)
    => /\ Failed
       /\ outcome.error.name = "NoLiquidityException"
       /\ Contains(outcome.error.message, "Cross-Chain Access: " \o crossChainAccessOption.error)
       /\ Contains(outcome.error.message, "Market Maker: " \o marketMakerOption.error)
       /\ Len(Executions) = 0

C4_Witness ==
    /\ BothOptionsKnown
    /\ ~marketMakerOption.available /\ ~crossChainAccessOption.available
    /\ Len(QuotesOf(calls, CCA)) = 1
    /\ Failed

\* C5: under CROSS_CHAIN_ACCESS_ONLY / MARKET_MAKER_ONLY the router returns
\* the named venue or nothing: it is never the other venue that is selected or
\* executed, and when the named venue is unavailable trade() fails with
\* NoLiquidityException without any execution, also when the other venue is
\* available.
C5_OnlyStrategyNeverOtherVenue ==
    (strategy \in OnlyStrategies) =>
        /\ selected # None => selected.platform = NamedVenue(strategy)
        /\ \A i \in DOMAIN Executions : Executions[i].venue = NamedVenue(strategy)
        /\ (BothOptionsKnown /\ ~OptionFor(NamedVenue(strategy)).available)
             => /\ Failed
                /\ outcome.error.name = "NoLiquidityException"
                /\ selected = None
                /\ Len(Executions) = 0

C5_Witness ==
    /\ strategy = MARKET_MAKER_ONLY
    /\ BothOptionsKnown
    /\ ~marketMakerOption.available
    /\ crossChainAccessOption.available
    /\ Failed /\ outcome.error.name = "NoLiquidityException"

\* C6: a second execution (the fallback) is requested only after the first
\* failed, only under BEST_PRICE, CROSS_CHAIN_ACCESS_FIRST or
\* MARKET_MAKER_FIRST as the effective strategy (the request's, else the
\* client's), and only on an available alternate option; under an ONLY
\* strategy there is never a second execution.
C6_FallbackOnlyWhenAllowed ==
    /\ strategy # Undefined =>
          strategy = IF options.routingStrategy # Undefined
                     THEN options.routingStrategy ELSE routingStrategy
    /\ Len(Executions) >= 2 =>
          /\ HasFailed(Executions[1])
          /\ strategy \in {BEST_PRICE, CROSS_CHAIN_ACCESS_FIRST, MARKET_MAKER_FIRST}
          /\ Executions[2].venue = Other(selected.platform)
          /\ OptionFor(Executions[2].venue).available
    /\ strategy \in OnlyStrategies => Len(Executions) <= 1

C6_Witness ==
    /\ Len(Executions) = 2
    /\ options.routingStrategy = Undefined
    /\ strategy = MARKET_MAKER_FIRST

\* C7: the TradeResult trade() returns is the one of the venue that executed
\* the trade: its source names the selected venue when the first execution
\* succeeded and the alternate venue when the fallback succeeded.
C7_ResultNamesExecutingVenue ==
    Succeeded =>
        LET n == Len(Executions) IN
        /\ n \in {1, 2}
        /\ HasSucceeded(Executions[n])
        /\ outcome.result.source = Executions[n].venue
        /\ outcome.result.txHash = Executions[n].reply.txHash
        /\ n = 1 => outcome.result.source = selected.platform
        /\ n = 2 => /\ HasFailed(Executions[1])
                    /\ Executions[1].venue = selected.platform
                    /\ outcome.result.source = Other(selected.platform)

C7_Witness ==
    /\ Succeeded
    /\ Len(Executions) = 2
    /\ selected.platform = MM
    /\ outcome.result.source = CCA

\* C8: when the first execution and the fallback execution both fail, trade()
\* fails with AllPlatformsFailedException, whose message holds the error of
\* the first venue and the error of the fallback venue.
C8_AllPlatformsFailedCarriesBoth ==
    (Len(Executions) = 2 /\ HasFailed(Executions[1]) /\ HasFailed(Executions[2]))
    => /\ Failed
       /\ outcome.error.name = "AllPlatformsFailedException"
       /\ Contains(outcome.error.message,
                   "Primary (" \o Executions[1].venue \o "): "
                       \o ErrToString(Executions[1].reply.error))
       /\ Contains(outcome.error.message,
                   "Fallback (" \o Executions[2].venue \o "): "
                       \o ErrToString(Executions[2].reply.error))

C8_Witness ==
    /\ Len(Executions) = 2
    /\ HasFailed(Executions[1]) /\ HasFailed(Executions[2])
    /\ Failed

\* C9: when the execution fails under CROSS_CHAIN_ACCESS_ONLY or
\* MARKET_MAKER_ONLY, trade() fails with a TradingException whose message wraps
\* the original error, and the alternate venue is not executed.
C9_OnlyStrategyFailureWrapped ==
    (strategy \in OnlyStrategies /\ Len(Executions) >= 1 /\ HasFailed(Executions[1]))
    => /\ Failed
       /\ outcome.error.name = "TradingException"
       /\ Contains(outcome.error.message, ErrToString(Executions[1].reply.error))
       /\ Len(Executions) = 1

C9_Witness ==
    /\ strategy = CROSS_CHAIN_ACCESS_ONLY
    /\ marketMakerOption # None /\ marketMakerOption.available
    /\ Len(Executions) = 1 /\ HasFailed(Executions[1])
    /\ Failed

\* C10: one trade() call requests at most two executions, never two on the
\* same venue and never two at once: the second is requested only after the
\* first has failed.
C10_AtMostOneFallback ==
    /\ Len(Executions) <= 2
    /\ \A i, j \in DOMAIN Executions :
          i < j => /\ Executions[i].venue # Executions[j].venue
                   /\ HasFailed(Executions[i])
    /\ Cardinality({i \in DOMAIN Executions : IsPending(Executions[i])}) <= 1
    /\ pc = "done" => \A i \in DOMAIN Executions : ~IsPending(Executions[i])

C10_Witness ==
    /\ Len(Executions) = 2
    /\ IsPending(Executions[2])

-----------------------------------------------------------------------------
(* routing.ts on its own: Router.selectPlatform applied to any pair of      *)
(* options createPlatformOption can build                                   *)

\* Amounts of the quotes handed to the router: 10/1000 and 12/1000 are the
\* rates 0.010 and 0.012 per unit sold, 98 and 100 the rates of a sell.
RouterSellAmounts == {Num(0), Num(1), Num(2)}
RouterBuyAmounts == {Num(0), Frac(10, 1000), Frac(12, 1000), Num(1), Num(98), Num(100)}

RouterQuotes(platform) ==
    {[sellAmount |-> s, buyAmount |-> b,
      rate |-> IF FIsZero(s) THEN Num(0) ELSE FDiv(b, s),
      source |-> platform] : s \in RouterSellAmounts, b \in RouterBuyAmounts}

RouterOptions(platform) ==
    {createPlatformOption(platform, q, a,
                          IF a = Bool(FALSE) THEN "No liquidity" ELSE Undefined) :
        q \in RouterQuotes(platform) \cup {None},
        a \in {None, Bool(TRUE), Bool(FALSE)}}

RouterInit ==
    /\ routingStrategy = BEST_PRICE
    /\ initialized = FALSE
    /\ mmInitialized = FALSE
    /\ ccaInitialized = FALSE
    /\ topupAddress = FALSE
    /\ pc = "router"
    /\ options = None
    /\ strategy \in RoutingStrategy
    /\ isBuy \in BOOLEAN
    /\ marketMakerOption \in RouterOptions(MM)
    /\ crossChainAccessOption \in RouterOptions(CCA)
    /\ selected = None
    /\ primaryError = None
    /\ outcome = None
    /\ calls = <<>>
    /\ nCalls = 0
    /\ op = "none"
    /\ locals = None
    /\ contractAddress = FALSE
    /\ suspended = <<>>
    /\ fetchers = NoFetchers
    /\ decimalsCache = EmptyMap

\* router.selectPlatform(crossChainAccessOption, marketMakerOption, strategy, isBuy)
SelectPlatform ==
    /\ pc = "router"
    /\ LET r == selectPlatform(crossChainAccessOption, marketMakerOption, strategy, isBuy)
       IN Commit(IF r.threw
                 THEN [Cur EXCEPT !.pc = "routed",
                                  !.outcome = [kind |-> "error", error |-> r.error]]
                 ELSE [Cur EXCEPT !.pc = "routed", !.selected = r.option])

RouterNext == SelectPlatform

RouterSpec == RouterInit /\ [][RouterNext]_vars

-----------------------------------------------------------------------------
(* Claims about the router *)

\* What the router takes as "available": routing.ts:99-102.
Available(option) == option.available /\ option.quote # None

\* buyAmount / sellAmount of a quote, 0 when sellAmount is 0
QuoteRate(quote) ==
    IF quote.sellAmount.n = 0 THEN Num(0) ELSE FDiv(quote.buyAmount, quote.sellAmount)

FLt(a, b) == a.n * b.d < b.n * a.d
FEq(a, b) == a.n * b.d = b.n * a.d

Routed == pc = "routed"
BothAvailable == Available(crossChainAccessOption) /\ Available(marketMakerOption)

C12_SellHigherRateWins ==
    (Routed /\ strategy = BEST_PRICE /\ ~isBuy /\ BothAvailable) =>
        /\ selected # None
        /\ LET crossChainAccessRate == QuoteRate(crossChainAccessOption.quote)
               marketMakerRate == QuoteRate(marketMakerOption.quote)
           IN /\ FLt(marketMakerRate, crossChainAccessRate)
                    => selected = crossChainAccessOption
              /\ FLt(crossChainAccessRate, marketMakerRate)
                    => selected = marketMakerOption
              /\ FEq(crossChainAccessRate, marketMakerRate)
                    => selected = crossChainAccessOption

\* A sell with Market Maker at 100 and Cross-Chain Access at 98 went to Market Maker.
C12_Witness ==
    /\ Routed /\ strategy = BEST_PRICE /\ ~isBuy /\ BothAvailable
    /\ FEq(QuoteRate(marketMakerOption.quote), Num(100))
    /\ FEq(QuoteRate(crossChainAccessOption.quote), Num(98))
    /\ selected = marketMakerOption

\* C13: a BEST_PRICE buy with both venues available, Market Maker at rate
\* 0.010 and Cross-Chain Access at rate 0.012, is routed to Cross-Chain Access
\* (the venue that gives more tokens per unit spent).
C13_BuyMoreTokensWins ==
    (/\ Routed /\ strategy = BEST_PRICE /\ isBuy /\ BothAvailable
     /\ FEq(QuoteRate(marketMakerOption.quote), Frac(10, 1000))
     /\ FEq(QuoteRate(crossChainAccessOption.quote), Frac(12, 1000)))
        => selected = crossChainAccessOption

FirstStrategies == {CROSS_CHAIN_ACCESS_FIRST, MARKET_MAKER_FIRST}
FirstVenue(strategy_) == IF strategy_ = CROSS_CHAIN_ACCESS_FIRST THEN CCA ELSE MM

\* C14: under CROSS_CHAIN_ACCESS_FIRST (MARKET_MAKER_FIRST) the router returns
\* the named venue whenever it is available, whatever the rates are, and it
\* returns the other venue exactly when the named venue is unavailable and the
\* other one is available.
C14_FirstStrategyPrefersNamedVenue ==
    (Routed /\ strategy \in FirstStrategies) =>
        LET named == OptionFor(FirstVenue(strategy))
            other == OptionFor(Other(FirstVenue(strategy)))
        IN /\ Available(named) => selected = named
           /\ (selected # None /\ selected.platform = other.platform)
                 <=> (~Available(named) /\ Available(other))

\* A FIRST strategy returned its named venue although the other venue's rate
\* was the one BEST_PRICE would have taken.
C14_Witness ==
    /\ Routed /\ strategy \in FirstStrategies /\ BothAvailable
    /\ selected = OptionFor(FirstVenue(strategy))
    /\ selected # BestPrice(crossChainAccessOption, marketMakerOption, isBuy)

-----------------------------------------------------------------------------
(* Claims about the quotes and the results of the venues *)

\* The quotes the two venues' getQuote returned to the current call.
QuotesReturned ==
    {o.quote : o \in {o \in {marketMakerOption, crossChainAccessOption} :
                         o # None /\ o.quote # None}}

\* C16: every Quote returned by either venue's getQuote has
\* rate = buyAmount / sellAmount, and rate = 0 when sellAmount = 0.
C16_QuoteRateIsBuyPerSell ==
    \A quote \in QuotesReturned : FEq(quote.rate, QuoteRate(quote))

-----------------------------------------------------------------------------
(* Claims about initialize() and getQuotes() *)

\* The authentication handshakes the current call has started with a venue's client.
AuthCalls(venue) ==
    {i \in 1..Len(calls) : calls[i].kind = "auth" /\ calls[i].venue = venue}

\* C17: TradingClient.initialize runs the two clients' handshakes strictly one
\* after the other: the Cross-Chain Access handshake is started only after the
\* Market Maker handshake has completed, and when the Market Maker handshake
\* fails the Cross-Chain Access handshake is not started.
C17_HandshakesSequential ==
    /\ \A i \in AuthCalls(CCA) :
          /\ mmInitialized
          /\ \A j \in AuthCalls(MM) : j < i /\ HasSucceeded(calls[j])
    /\ (\E j \in AuthCalls(MM) : HasFailed(calls[j]))
          => (AuthCalls(CCA) = {} /\ Failed)
    /\ Cardinality({i \in AuthCalls(CCA) \cup AuthCalls(MM) : IsPending(calls[i])}) <= 1

\* initialize() has started the Cross-Chain Access handshake after its own
\* Market Maker handshake.
C17_Witness ==
    /\ op = "initialize"
    /\ AuthCalls(MM) # {}
    /\ AuthCalls(CCA) # {}

\* C18: TradingClient.getQuotes never throws: it resolves with one entry per
\* venue, and the entry of a venue whose quote failed (or of Cross-Chain
\* Access when no symbol was given) is null.
C18_GetQuotesNeverThrows ==
    op = "getQuotes" =>
        /\ outcome = None \/ outcome.kind = "result"
        /\ pc = "done" =>
              /\ outcome # None
              /\ DOMAIN outcome.result = Platforms
              /\ \A venue \in Platforms :
                    LET requests == QuotesOf(calls, venue)
                        entry == outcome.result[venue]
                    IN IF Len(requests) = 0 \/ HasFailed(requests[1])
                       THEN entry = None
                       ELSE /\ HasSucceeded(requests[1])
                            /\ entry = IF venue = MM
                                       THEN MarketMakerQuote(requests[1].reply)
                                       ELSE CrossChainAccessQuote(requests[1].reply)
              /\ ~Truthy(options.toTokenSymbol) => outcome.result[CCA] = None

\* getQuotes has resolved although the Market Maker quote failed; the
\* Cross-Chain Access entry is the quote that venue gave.
C18_Witness ==
    /\ op = "getQuotes" /\ pc = "done"
    /\ Len(QuotesOf(calls, MM)) = 1 /\ HasFailed(QuotesOf(calls, MM)[1])
    /\ Len(QuotesOf(calls, CCA)) = 1 /\ HasSucceeded(QuotesOf(calls, CCA)[1])
    /\ outcome.kind = "result"
    /\ outcome.result[MM] = None
    /\ outcome.result[CCA] # None

\* C19: every quote request sent to the Market Maker venue specifies exactly
\* one of targetSellAmount / targetBuyAmount: a request with both or with
\* neither is rejected locally and never sent.
C19_ExactlyOneTarget ==
    \A i \in 1..Len(calls) :
        (calls[i].kind = "quote" /\ calls[i].venue = MM) =>
            (calls[i].request.targetSellAmount # Undefined)
                # (calls[i].request.targetBuyAmount # Undefined)

-----------------------------------------------------------------------------
(* Claims about CrossChainAccessClient.buy / sell *)

InBuyOrSell == op \in {BUY, SELL}

\* The trading window, by weekday and time of day (UTC).
WindowClosed(date) ==
    \/ date.weekday \notin 1..5
    \/ date.hour * 60 + date.minute < 14 * 60 + 30
    \/ date.hour * 60 + date.minute > 21 * 60

\* The current call has read the clock while the window was closed.
SawWindowClosed ==
    \E i \in 1..Len(calls) :
        calls[i].kind = "clock" /\ HasSucceeded(calls[i]) /\ WindowClosed(calls[i].reply.date)

\* The venue has told the current call that the account may not trade.
SawAccountBlocked ==
    \E i \in 1..Len(calls) :
        /\ calls[i].kind = "accountStatus"
        /\ HasSucceeded(calls[i])
        /\ LET status == calls[i].reply.status
           IN \/ status.accountBlocked
              \/ status.tradingBlocked
              \/ status.transfersBlocked
              \/ status.tradeSuspendedByUser

FundsMoved == \E i \in 1..Len(calls) : calls[i].kind \in {"transfer", "order"}

\* C20: a buy or sell made while the trading window is closed, or on an
\* account that is blocked, trading-blocked, transfer-blocked or suspended,
\* fails with MarketClosedException or AccountBlockedException, and neither an
\* on-chain transfer nor an order submission is made; a transfer is only
\* ever made after the window was seen open and the account clear.
C20_ClosedOrBlockedMovesNoFunds ==
    InBuyOrSell =>
        /\ (SawWindowClosed \/ SawAccountBlocked) =>
              /\ Failed
              /\ outcome.error.name \in {"MarketClosedException", "AccountBlockedException"}
              /\ ~FundsMoved
        /\ FundsMoved =>
              /\ \E i \in 1..Len(calls) :
                    /\ calls[i].kind = "clock"
                    /\ HasSucceeded(calls[i])
                    /\ ~WindowClosed(calls[i].reply.date)
              /\ \E i \in 1..Len(calls) :
                    /\ calls[i].kind = "accountStatus"
                    /\ HasSucceeded(calls[i])
                    /\ calls[i].reply.status.marketOpen
              /\ ~SawWindowClosed /\ ~SawAccountBlocked

\* A buy or sell on an account whose transfers are blocked, made while the
\* window was open, has failed with AccountBlockedException.
C20_Witness ==
    /\ InBuyOrSell /\ Failed
    /\ ~SawWindowClosed
    /\ \E i \in 1..Len(calls) :
          /\ calls[i].kind = "accountStatus" /\ HasSucceeded(calls[i])
          /\ calls[i].reply.status.transfersBlocked
    /\ outcome.error.name = "AccountBlockedException"
    /\ ~FundsMoved

\* One unit of the coarser of the two roundings (USDC_DECIMALS decimals).
RoundingTolerance == Frac(1, 10 ^ USDC_DECIMALS)

\* |a - b| <= tolerance
Within(a, b, tolerance) ==
    LET n == a.n * b.d - b.n * a.d
        d == a.d * b.d
    IN /\ d # 0
       /\ (IF n < 0 THEN 0 - n ELSE n) * tolerance.d <= tolerance.n * d

\* C15: every TradeResult returned by a successful trade has
\* rate = buyAmount / sellAmount within rounding tolerance.
C15_ResultRateIsBuyPerSell ==
    (InBuyOrSell /\ Succeeded) =>
        LET result == outcome.result
        IN Within(FMul(result.rate, result.sellAmount), result.buyAmount,
                  FMul(RoundingTolerance, result.sellAmount))

-----------------------------------------------------------------------------
(* Cross-Chain Access: the escrow transfer and the order *)

Confirmed(reply) == reply # Pending /\ reply.ok /\ reply.receipt.status = "success"

\* The transfer was refused by the wallet, or its receipt reverted or timed out.
Unconfirmed(call) ==
    /\ call.reply # Pending
    /\ \/ call.kind = "transfer" /\ ~call.reply.ok
       \/ call.kind = "receipt" /\ ~Confirmed(call.reply)

\* C21: the order is submitted only after the escrow transfer was submitted
\* and its receipt came back successful, and it carries that transfer's
\* hash; after a transfer that was rejected, reverted or timed out the call
\* has failed without any order.
C21_OrderOnlyAfterConfirmedTransfer ==
    InBuyOrSell =>
        /\ \A i \in 1..Len(calls) :
              calls[i].kind = "order" =>
                  /\ i > 2
                  /\ calls[i - 2].kind = "transfer"
                  /\ calls[i - 2].reply.ok
                  /\ calls[i - 2].reply.hash = calls[i].request.txHash
                  /\ calls[i - 1].kind = "receipt"
                  /\ calls[i - 1].request.hash = calls[i].request.txHash
                  /\ Confirmed(calls[i - 1].reply)
        /\ \A i \in 1..Len(calls) :
              Unconfirmed(calls[i]) => i = Len(calls) /\ Failed

C21_Witness ==
    /\ InBuyOrSell
    /\ \E i \in 1..Len(calls) :
          /\ calls[i].kind = "order"
          /\ calls[i].request.txHash = "0xbbb"
          /\ calls[i - 2].reply = [ok |-> TRUE, hash |-> "0xbbb"]

\* The error names the transaction: in a field of its own or in its message.
PreservesHash(error, hash) ==
    \/ "txHash" \in DOMAIN error /\ error.txHash = hash
    \/ includes(error.message, hash)

\* C22: when the order submission fails after the transfer was confirmed, the
\* error the caller of buy or sell gets carries the hash of that transfer.
C22_OrderFailureKeepsTransferHash ==
    \A i \in 1..Len(calls) :
        (InBuyOrSell /\ calls[i].kind = "order" /\ HasFailed(calls[i]))
            => Failed /\ PreservesHash(outcome.error, calls[i].request.txHash)

-----------------------------------------------------------------------------
(* trade(): what is executed on Cross-Chain Access *)

\* C23: a trade() given toAmount, when executed on Cross-Chain Access, calls
\* the venue client's buy for toAmount units of toToken, so that a BUY order
\* is submitted and the asset paid with is not toToken.
C23_ToAmountBuysToToken ==
    \A i \in 1..Len(calls) :
        (/\ op = "trade"
         /\ calls[i].kind = "execute"
         /\ calls[i].venue = CCA
         /\ options.toAmount # NoAmount)
            => /\ calls[i].request.method = "buy"
               /\ calls[i].request.rwaTokenAddress = "toToken"
               /\ calls[i].request.rwaAmount = options.toAmount

\* C24: when the market is closed at the time of the quote (a weekend, or
\* outside 14:30-21:00 UTC), the Cross-Chain Access option given to the
\* router is unavailable, and Cross-Chain Access is not selected.
C24_ClosedMarketMeansUnavailable ==
    \A i \in 1..Len(calls) :
        (/\ op = "trade"
         /\ calls[i].kind = "quote"
         /\ calls[i].venue = CCA
         /\ HasSucceeded(calls[i])
         /\ ~isMarketOpen(calls[i].reply.date))
            => /\ crossChainAccessOption # None => ~crossChainAccessOption.available
               /\ selected # None => selected.platform # CCA

-----------------------------------------------------------------------------
(* shared BaseAPIClient.makeRequest: the retry loop, last step first *)

\* DEFAULT_RETRY_OPTIONS
MAX_ATTEMPTS == 3
INITIAL_DELAY_MS == 2000
MAX_DELAY_MS == 10000
MULTIPLIER == 2

\* new APIException(message, statusCode)
APIException(message, statusCode) ==
    [name |-> "APIException",
     message |-> IF statusCode # 0
                 THEN message \o " (status: " \o ToString(statusCode) \o ")"
                 ELSE message,
     statusCode |-> statusCode]

calculateDelay(attempt) ==
    LET delay == INITIAL_DELAY_MS * MULTIPLIER ^ attempt
    IN IF delay < MAX_DELAY_MS THEN delay ELSE MAX_DELAY_MS

\* Variant: every error is retried.
isRetryableError_Always(error) == TRUE

isRetryableError(error) ==
    IF error.name = "APIException"
    THEN error.statusCode >= 500 \/ error.statusCode = 429
    ELSE IF error.name = "TypeError"
    THEN TRUE
    ELSE FALSE

fetch(s) ==
    AwaitRequest(s, "fetch", "api",
                 [method |-> s.options.method, endpoint |-> s.options.endpoint],
                 "await_fetch")

\* sleep(delay) has resolved: `continue`, the next turn of the loop.
sleepDone(s) ==
    LET attempt == s.locals.attempt + 1
    IN IF attempt < MAX_ATTEMPTS
       THEN fetch([s EXCEPT !.locals.attempt = attempt])
       ELSE Throw(s, s.locals.lastError)

\* The catch block of one attempt.
attemptFailed(s, error) ==
    IF s.locals.attempt < MAX_ATTEMPTS - 1 /\ isRetryableError(error)
    THEN AwaitRequest([s EXCEPT !.locals.lastError = error], "sleep", "timer",
                      [delay |-> calculateDelay(s.locals.attempt)], "await_sleep")
    ELSE Throw(s, error)

\* response.json() of a successful response has resolved, or thrown.
bodyDone(s, reply) ==
    IF reply.ok THEN Return(s, reply.body) ELSE attemptFailed(s, reply.error)

\* response.json() of an error response has resolved, or thrown.
errorBodyDone(s, reply) ==
    LET status == s.locals.status
        errorMessage == IF reply.ok /\ Truthy(reply.body.message)
                        THEN reply.body.message
                        ELSE "Request failed with status " \o ToString(status)
    IN attemptFailed(s, APIException(errorMessage, status))

\* response.ok
responseOk(status) == status \in 200..299

\* fetch has resolved with a response, or rejected.
fetchDone(s, reply) ==
    IF ~reply.ok THEN attemptFailed(s, reply.error)
    ELSE IF ~responseOk(reply.status)
    THEN Await([s EXCEPT !.locals.status = reply.status], "json", "api", "await_error_body")
    ELSE Await([s EXCEPT !.locals.status = reply.status], "json", "api", "await_body")

makeRequest(s) ==
    fetch([s EXCEPT !.locals = [attempt |-> 0, lastError |-> None, status |-> 0]])

\* The requests made, the responses' statuses and the bodies.
Requests == [method : {"GET", "POST"}, endpoint : {"/orders"}]

Statuses == {200, 400, 401, 429, 500, 503}

FetchReplies ==
    {[ok |-> TRUE, status |-> st] : st \in Statuses}
    \cup {Fail(Err("TypeError", "fetch failed"))}

BodyReplies ==
    {[ok |-> TRUE, body |-> [data |-> "data"]],
     Fail(Err("SyntaxError", "Unexpected end of JSON input"))}

ErrorBodyReplies ==
    {[ok |-> TRUE, body |-> [message |-> "Service said no"]],
     [ok |-> TRUE, body |-> [message |-> Undefined]],
     Fail(Err("SyntaxError", "Unexpected end of JSON input"))}

MakeRequest ==
    /\ pc \in {"idle", "done"}
    /\ nCalls < MaxCalls
    /\ \E request \in Requests : Commit(makeRequest(NewFrame(Cur, "makeRequest", request)))

FetchReply ==
    /\ pc = "await_fetch"
    /\ \E r \in FetchReplies : Commit(fetchDone(Settle(Cur, r), r))

BodyReply ==
    /\ pc = "await_body"
    /\ \E r \in BodyReplies : Commit(bodyDone(Settle(Cur, r), r))

ErrorBodyReply ==
    /\ pc = "await_error_body"
    /\ \E r \in ErrorBodyReplies : Commit(errorBodyDone(Settle(Cur, r), r))

SleepDone ==
    /\ pc = "await_sleep"
    /\ Commit(sleepDone(Settle(Cur, Ok)))

ApiNext ==
    \/ MakeRequest
    \/ FetchReply
    \/ BodyReply
    \/ ErrorBodyReply
    \/ SleepDone

ApiSpec == Init /\ [][ApiNext]_vars

\* Every fetch settles, every body is read or fails, every timer fires.
ApiFairSpec ==
    /\ ApiSpec
    /\ WF_vars(FetchReply)
    /\ WF_vars(BodyReply)
    /\ WF_vars(ErrorBodyReply)
    /\ WF_vars(SleepDone)

InMakeRequest == op = "makeRequest"

Fetches == CallsOfKind(calls, "fetch")

\* The attempt made by a fetch failed in a way that is retried: the network
\* failed, or the response was a 5xx or a 429.
Retried(fetched) ==
    /\ fetched.reply # Pending
    /\ \/ ~fetched.reply.ok
       \/ fetched.reply.status >= 500
       \/ fetched.reply.status = 429

\* The response was another 4xx.
Refused(fetched) ==
    /\ HasSucceeded(fetched)
    /\ fetched.reply.status \in 400..499
    /\ fetched.reply.status # 429

AttemptsBounded ==
    InMakeRequest =>
        /\ Len(Fetches) <= 3
        /\ \A k \in 2..Len(Fetches) : Retried(Fetches[k - 1])
        /\ \A k \in 1..Len(Fetches) :
              Refused(Fetches[k]) =>
                  /\ k = Len(Fetches)
                  /\ pc \in {"await_error_body", "done"}
                  /\ pc = "done" =>
                        Failed /\ outcome.error.statusCode = Fetches[k].reply.status

\* C25: makeRequest makes at most 3 attempts and always ends; an attempt is
\* repeated only after a network error, a 5xx or a 429, and any other 4xx
\* (401 included) ends the call with that error at once.
C25_BoundedRetries ==
    /\ []AttemptsBounded
    /\ (InMakeRequest /\ pc # "done") ~> (pc = "done")

C25_Witness ==
    /\ InMakeRequest
    /\ Len(Fetches) = 3
    /\ Fetches[1].reply = [ok |-> TRUE, status |-> 429]
    /\ ~Fetches[2].reply.ok
    /\ Fetches[3].reply = [ok |-> TRUE, status |-> 401]
    /\ Failed

-----------------------------------------------------------------------------
(* market-maker-sdk marketMakerWeb3/client.ts: takeOfferFixed and
   takeOfferDynamic, last step first *)

ZERO_ADDRESS == "0x0000000000000000000000000000000000000000"

\* new MarketMakerWeb3Exception(message) and its subclasses
MarketMakerWeb3Exception(message) == Err("MarketMakerWeb3Exception", message)

MarketMakerWeb3Exceptions ==
    {"MarketMakerWeb3Exception", "OfferNotFoundError", "OfferInactiveError",
     "InsufficientOfferBalanceError", "OfferExpiredError", "UnauthorizedError"}

\* handleContractError(error, operation): the exception it throws.
handleContractError(error, operation) ==
    LET message == error.message
    IN IF includes(message, "OfferNotFound") \/ includes(message, "offer does not exist")
       THEN Err("OfferNotFoundError", "Offer not found during " \o operation)
       ELSE IF includes(message, "OfferInactive") \/ includes(message, "offer is not active")
       THEN Err("OfferInactiveError", "Offer is inactive during " \o operation)
       ELSE IF includes(message, "InsufficientBalance")
               \/ includes(message, "insufficient balance")
       THEN Err("InsufficientOfferBalanceError", "Insufficient balance during " \o operation)
       ELSE IF includes(message, "OfferExpired") \/ includes(message, "offer has expired")
       THEN Err("OfferExpiredError", "Offer expired during " \o operation)
       ELSE IF includes(message, "Unauthorized") \/ includes(message, "not authorized")
       THEN Err("UnauthorizedError", "Unauthorized for " \o operation)
       ELSE MarketMakerWeb3Exception("Failed to " \o operation \o ": " \o message)

\* market-maker-sdk sdk/client.ts: the end of MarketMakerClient.trade.
FIXED_PRICING == "FixedPricing"
DYNAMIC_PRICING == "DynamicPricing"

\* The catch block of trade().
marketMakerTradeFailed(s, error) ==
    IF error.name = "NoOffersAvailableException" \/ error.name \in MarketMakerWeb3Exceptions
    THEN Throw(s, error)
    ELSE Throw(s, MarketMakerWeb3Exception("Trade execution failed: " \o ErrToString(error)))

\* BigInt(string) of a string of decimal digits.
RECURSIVE BigInt(_)
BigInt(string) ==
    IF string = "" THEN 0
    ELSE LET last == SubSeq(string, Len(string), Len(string))
             digit == CHOOSE d \in 0..9 : ToString(d) = last
         IN 10 * BigInt(SubSeq(string, 1, Len(string) - 1)) + digit

\* Step 3: the result of the trade, from the offer that was taken.
marketMakerTradeDone(s, txHash) ==
    LET selectedOffer == s.locals.selectedOffer
        withdrawalDecimals == BigInt(selectedOffer.withdrawalAmountPaidDecimals)
        withdrawalAmountPaidNormalized ==
            Frac(BigInt(selectedOffer.withdrawalAmountPaid), 10 ^ withdrawalDecimals)
        pricePerUnit == selectedOffer.pricePerUnit
        depositAmountReceivedNormalized ==
            IF ~FLeq(pricePerUnit, Num(0))
            THEN FDiv(withdrawalAmountPaidNormalized, pricePerUnit)
            ELSE Num(0)
    IN Return(s, [txHash |-> txHash, orderId |-> selectedOffer.id,
                  sellTokenAddress |-> s.options.fromToken,
                  sellAmount |-> withdrawalAmountPaidNormalized,
                  buyTokenAddress |-> s.options.toToken,
                  buyAmount |-> depositAmountReceivedNormalized,
                  rate |-> pricePerUnit, source |-> "market_maker"])

\* takeOfferFixed / takeOfferDynamic return the hash, or throw: to trade()
\* when it made the call, otherwise to the caller of the method.
takeOfferReturns(s, hash) ==
    IF s.op = "marketMakerTrade"
    THEN marketMakerTradeDone([s EXCEPT !.locals = @.caller], hash)
    ELSE Return(s, hash)

takeOfferThrows(s, error) ==
    IF s.op = "marketMakerTrade"
    THEN marketMakerTradeFailed([s EXCEPT !.locals = @.caller], error)
    ELSE Throw(s, error)

\* The catch block of takeOfferFixed / takeOfferDynamic.
takeOfferFailed(s, error) ==
    IF error.name \in MarketMakerWeb3Exceptions
    THEN takeOfferThrows(s, error)
    ELSE takeOfferThrows(s, handleContractError(error, s.locals.operation))

\* Variant: after a timeout the take-offer is submitted again.
takeOfferReceiptDone_Resubmits(s, reply) ==
    IF ~reply.ok
    THEN AwaitRequest(s, "takeOffer", MM,
                      [functionName |-> s.locals.functionName, args |-> s.locals.args], "await_take_offer")
    ELSE IF reply.receipt.status = "reverted"
    THEN takeOfferFailed(s, MarketMakerWeb3Exception("Transaction reverted"))
    ELSE takeOfferReturns(s, awaitedHash(s))

\* Variant: a wait that times out is reported as a revert.
takeOfferReceiptDone_TimeoutAsRevert(s, reply) ==
    IF ~reply.ok \/ reply.receipt.status = "reverted"
    THEN takeOfferFailed(s, MarketMakerWeb3Exception("Transaction reverted"))
    ELSE takeOfferReturns(s, awaitedHash(s))

\* The wait for the take-offer receipt has ended.
takeOfferReceiptDone(s, reply) ==
    IF ~reply.ok THEN takeOfferFailed(s, reply.error)
    ELSE IF reply.receipt.status = "reverted"
    THEN takeOfferFailed(s, MarketMakerWeb3Exception("Transaction reverted"))
    ELSE takeOfferReturns(s, awaitedHash(s))

\* writeContract of the take-offer has returned the hash, or thrown.
takeOfferSubmitted(s, reply) ==
    IF ~reply.ok THEN takeOfferFailed(s, reply.error)
    ELSE waitForTransactionReceipt(s, reply.hash, "await_take_offer_receipt")

\* Take offer on-chain.
takeOffer(s) ==
    AwaitRequest(s, "takeOffer", MM,
                 [functionName |-> s.locals.functionName, args |-> s.locals.args],
                 "await_take_offer")

\* Variant: a receipt of any status confirms the approval.
approvalReceiptDone_IgnoresRevert(s, reply) ==
    IF ~reply.ok THEN takeOfferFailed(s, reply.error) ELSE takeOffer(s)

\* approveTokenIfNeeded: the wait for the approval's receipt has ended.
approvalReceiptDone(s, reply) ==
    IF ~reply.ok THEN takeOfferFailed(s, reply.error)
    ELSE IF reply.receipt.status = "reverted"
    THEN takeOfferFailed(s, MarketMakerWeb3Exception("Approval transaction reverted"))
    ELSE takeOffer(s)

\* approveTokenIfNeeded: writeContract of the approval has returned, or thrown.
approvalSubmitted(s, reply) ==
    IF ~reply.ok THEN takeOfferFailed(s, reply.error)
    ELSE waitForTransactionReceipt(s, reply.hash, "await_approval_receipt")

\* approveTokenIfNeeded: the allowance has been read.
allowanceDone(s, reply) ==
    IF ~reply.ok THEN takeOfferFailed(s, reply.error)
    ELSE IF reply.allowance >= s.locals.withdrawalAmountPaid
    THEN takeOffer(s)
    ELSE AwaitRequest(s, "approve", MM,
                      [token |-> s.locals.withdrawalToken, spender |-> "contractAddress",
                       amount |-> s.locals.withdrawalAmountPaid],
                      "await_approval")

approveTokenIfNeeded(s) ==
    AwaitRequest(s, "allowance", MM,
                 [token |-> s.locals.withdrawalToken, spender |-> "contractAddress"],
                 "await_allowance")

\* ensureContractLoaded: the address has arrived from the configuration.
contractAddressDone(s, reply) ==
    IF ~reply.ok THEN takeOfferFailed(s, reply.error)
    ELSE IF ~Truthy(reply.address) \/ reply.address = ZERO_ADDRESS
    THEN takeOfferFailed(s, MarketMakerWeb3Exception(
             "Market Maker Manager contract not deployed on network"))
    ELSE approveTokenIfNeeded([s EXCEPT !.contractAddress = TRUE])

ensureContractLoaded(s) ==
    IF s.contractAddress
    THEN approveTokenIfNeeded(s)
    ELSE Await(s, "config", MM, "await_contract_address")

takeOfferFixed(s, offerId, withdrawalToken, withdrawalAmountPaid) ==
    ensureContractLoaded([s EXCEPT !.locals =
        [operation |-> "take fixed offer", functionName |-> "takeOfferFixed",
         caller |-> s.locals,
         withdrawalToken |-> withdrawalToken,
         withdrawalAmountPaid |-> withdrawalAmountPaid,
         args |-> <<offerId, withdrawalAmountPaid, ZERO_ADDRESS>>]])

takeOfferDynamic(s, offerId, withdrawalToken, withdrawalAmountPaid, maximumRate) ==
    ensureContractLoaded([s EXCEPT !.locals =
        [operation |-> "take dynamic offer", functionName |-> "takeOfferDynamic",
         caller |-> s.locals,
         withdrawalToken |-> withdrawalToken,
         withdrawalAmountPaid |-> withdrawalAmountPaid,
         args |-> <<offerId, withdrawalAmountPaid, maximumRate, ZERO_ADDRESS>>]])

\* market-maker-sdk sdk/client.ts: MarketMakerClient.trade up to the
\* take-offer.

\* Variant: a dynamic offer without its maximum rate is taken as a fixed one.
bestOffersDone_RateNotRequired(s, reply) ==
    IF ~reply.ok THEN marketMakerTradeFailed(s, reply.error)
    ELSE IF Len(reply.result.selectedOffers) = 0
    THEN marketMakerTradeFailed(s, Err("NoOffersAvailableException",
                                       "No suitable offers found for this trade"))
    ELSE LET selectedOffer == reply.result.selectedOffers[1]
             withdrawalAmountPaidWei == BigInt(selectedOffer.withdrawalAmountPaid)
             s1 == [s EXCEPT !.locals = [selectedOffer |-> selectedOffer]]
         IN IF selectedOffer.pricingType = DYNAMIC_PRICING
                /\ Truthy(selectedOffer.depositToWithdrawalRate)
            THEN takeOfferDynamic(s1, selectedOffer.id, s.options.fromToken,
                                  withdrawalAmountPaidWei,
                                  BigInt(selectedOffer.depositToWithdrawalRate))
            ELSE takeOfferFixed(s1, selectedOffer.id, s.options.fromToken,
                                withdrawalAmountPaidWei)

\* Step 2: the first selected offer is taken by the method of its pricing
\* type; a dynamic offer needs its maximum rate.
bestOffersDone(s, reply) ==
    IF ~reply.ok THEN marketMakerTradeFailed(s, reply.error)
    ELSE IF Len(reply.result.selectedOffers) = 0
    THEN marketMakerTradeFailed(s, Err("NoOffersAvailableException",
                                       "No suitable offers found for this trade"))
    ELSE LET selectedOffer == reply.result.selectedOffers[1]
             withdrawalAmountPaidWei == BigInt(selectedOffer.withdrawalAmountPaid)
             s1 == [s EXCEPT !.locals = [selectedOffer |-> selectedOffer]]
         IN IF selectedOffer.pricingType = DYNAMIC_PRICING
            THEN IF ~Truthy(selectedOffer.depositToWithdrawalRate)
                 THEN marketMakerTradeFailed(s1, MarketMakerWeb3Exception(
                          "Dynamic offer " \o selectedOffer.id
                              \o " missing depositToWithdrawalRate"))
                 ELSE takeOfferDynamic(s1, selectedOffer.id, s.options.fromToken,
                                       withdrawalAmountPaidWei,
                                       BigInt(selectedOffer.depositToWithdrawalRate))
            ELSE takeOfferFixed(s1, selectedOffer.id, s.options.fromToken,
                                withdrawalAmountPaidWei)

\* RPQClient.getBestOffers throws before anything is sent when both targets
\* or neither are given.
getBestOffersRejection(request) ==
    IF Truthy(request.targetSellAmount) /\ Truthy(request.targetBuyAmount)
    THEN Err("Error", "Specify either targetSellAmount OR targetBuyAmount, not both")
    ELSE IF ~Truthy(request.targetSellAmount) /\ ~Truthy(request.targetBuyAmount)
    THEN Err("Error", "Must specify either targetSellAmount OR targetBuyAmount")
    ELSE None

\* Step 1: get the best offers.
getBestOffers(s) ==
    LET request == QuoteRequest(s.options.fromAmount, s.options.toAmount)
    IN IF getBestOffersRejection(request) # None
       THEN marketMakerTradeFailed(s, getBestOffersRejection(request))
       ELSE AwaitRequest(s, "bestOffers", MM, request, "await_best_offers")

\* `await this.initialize()` of trade() has completed, or thrown.
marketMakerTradeInitialized(s, reply) ==
    IF reply.ok THEN getBestOffers([s EXCEPT !.mmInitialized = TRUE])
    ELSE Throw(s, reply.error)

\* MarketMakerClient.trade(options) up to its first await.
marketMakerTrade(s) ==
    IF ~s.mmInitialized
    THEN Await(s, "auth", MM, "await_trade_auth")
    ELSE getBestOffers(s)

\* The offers taken, the replies of the configuration and of the chain.
TakeOfferParams ==
    [offerId : {"7"}, withdrawalAmountPaid : 1..MaxAmount,
     maximumDepositToWithdrawalRate : {1}]

ContractAddressReplies ==
    {[ok |-> TRUE, address |-> "0xmanager"],
     [ok |-> TRUE, address |-> ZERO_ADDRESS],
     Fail(Err("Error", "Configuration not loaded"))}

AllowanceReplies ==
    {[ok |-> TRUE, allowance |-> a] : a \in 0..MaxAmount}
    \cup {Fail(Err("ContractFunctionExecutionError", "allowance failed"))}

ApprovalReplies ==
    {[ok |-> TRUE, hash |-> "0xapprove"],
     Fail(Err("TransactionExecutionError", "User rejected the request"))}

\* The reasons the contract reverts a take-offer with.
RevertReasons ==
    {"OfferNotFound", "OfferInactive", "InsufficientBalance", "OfferExpired",
     "Unauthorized", "SlippageExceeded"}

\* writeContract simulates the call: a call that would revert is refused
\* with the reason in the message.
TakeOfferReplies ==
    {[ok |-> TRUE, hash |-> h] : h \in TxHashes}
    \cup {Fail(Err("ContractFunctionExecutionError",
                   "The contract function reverted with the following reason: " \o r)) :
             r \in RevertReasons}
    \cup {Fail(Err("ContractFunctionExecutionError", "execution reverted: offer has expired")),
          Fail(Err("TransactionExecutionError", "User rejected the request"))}

\* How the wait for the take-offer's receipt ends; a reverted receipt shows
\* the status only, `reason` is what the contract reverted with.
TakeOfferReceiptReplies ==
    {[ok |-> TRUE, receipt |-> [status |-> "success"]]}
    \cup {[ok |-> TRUE, receipt |-> [status |-> "reverted"], reason |-> r] :
             r \in RevertReasons}
    \cup {Fail(Err("WaitForTransactionReceiptTimeoutError",
                   "Timed out while waiting for transaction"))}

TakeOfferFixed ==
    /\ pc \in {"idle", "done"}
    /\ nCalls < MaxCalls
    /\ \E p \in TakeOfferParams :
          Commit(takeOfferFixed(NewFrame(Cur, "takeOfferFixed", p),
                                p.offerId, "withdrawalToken", p.withdrawalAmountPaid))

TakeOfferDynamic ==
    /\ pc \in {"idle", "done"}
    /\ nCalls < MaxCalls
    /\ \E p \in TakeOfferParams :
          Commit(takeOfferDynamic(NewFrame(Cur, "takeOfferDynamic", p),
                                  p.offerId, "withdrawalToken", p.withdrawalAmountPaid,
                                  p.maximumDepositToWithdrawalRate))

ContractAddressReply ==
    /\ pc = "await_contract_address"
    /\ \E r \in ContractAddressReplies : Commit(contractAddressDone(Settle(Cur, r), r))

AllowanceReply ==
    /\ pc = "await_allowance"
    /\ \E r \in AllowanceReplies : Commit(allowanceDone(Settle(Cur, r), r))

ApprovalReply ==
    /\ pc = "await_approval"
    /\ \E r \in ApprovalReplies : Commit(approvalSubmitted(Settle(Cur, r), r))

ApprovalReceiptReply ==
    /\ pc = "await_approval_receipt"
    /\ \E r \in ReceiptReplies : Commit(approvalReceiptDone(Settle(Cur, r), r))

TakeOfferReply ==
    /\ pc = "await_take_offer"
    /\ \E r \in TakeOfferReplies : Commit(takeOfferSubmitted(Settle(Cur, r), r))

TakeOfferReceiptReply ==
    /\ pc = "await_take_offer_receipt"
    /\ \E r \in TakeOfferReceiptReplies : Commit(takeOfferReceiptDone(Settle(Cur, r), r))

MarketMakerWeb3Next ==
    \/ TakeOfferFixed
    \/ TakeOfferDynamic
    \/ ContractAddressReply
    \/ AllowanceReply
    \/ ApprovalReply
    \/ ApprovalReceiptReply
    \/ TakeOfferReply
    \/ TakeOfferReceiptReply

MarketMakerWeb3Spec == Init /\ [][MarketMakerWeb3Next]_vars

-----------------------------------------------------------------------------
(* MarketMakerClient on its own: trade() *)

MarketMakerTradeOptions ==
    [fromToken : {"0xusdc"}, toToken : {"0xrwa"},
     fromAmount : FromAmounts, toAmount : ToAmounts]

\* A selected offer: the amount to pay in the smallest unit, a price of 1.
SelectedOffer(id, withdrawalAmountPaid, pricingType, depositToWithdrawalRate) ==
    [id |-> id, withdrawalAmountPaid |-> withdrawalAmountPaid,
     withdrawalAmountPaidDecimals |-> "0", pricePerUnit |-> Num(1),
     pricingType |-> pricingType, depositToWithdrawalRate |-> depositToWithdrawalRate]

\* The offers the venue may select: a fixed one, and a dynamic one with and
\* without its maximum rate.
SelectedOffers ==
    {SelectedOffer("7", "1", FIXED_PRICING, Undefined),
     SelectedOffer("8", "2", DYNAMIC_PRICING, "12"),
     SelectedOffer("9", "1", DYNAMIC_PRICING, Undefined),
     SelectedOffer("9", "1", DYNAMIC_PRICING, "")}

RECURSIVE TotalPaid(_)
TotalPaid(offers) ==
    IF offers = <<>> THEN 0
    ELSE BigInt(offers[1].withdrawalAmountPaid) + TotalPaid(Tail(offers))

\* What getBestOffers resolves with: no offer, one offer, or two offers that
\* together pay the total; or one of its exceptions.
BestOffersResult(selectedOffers) ==
    [ok |-> TRUE,
     result |-> [totalWithdrawalAmountPaid |-> ToString(TotalPaid(selectedOffers)),
                 selectedOffers |-> selectedOffers]]

BestOffersReplies ==
    {BestOffersResult(<<>>)}
    \cup {BestOffersResult(<<o>>) : o \in SelectedOffers}
    \cup {BestOffersResult(<<o1, o2>>) :
             o1 \in SelectedOffers, o2 \in {SelectedOffer("7", "1", FIXED_PRICING, Undefined)}}
    \cup {Fail(Err("NoOffersAvailableException", "No offers available for 0xusdc -> 0xrwa")),
          Fail(Err("RPQServiceException", "Failed to get best offers: Error: fetch failed"))}

MarketMakerTrade ==
    /\ pc \in {"idle", "done"}
    /\ nCalls < MaxCalls
    /\ \E o \in MarketMakerTradeOptions :
          Commit(marketMakerTrade(NewFrame(Cur, "marketMakerTrade", o)))

MarketMakerTradeAuthReply ==
    /\ pc = "await_trade_auth"
    /\ \E r \in AuthReplies : Commit(marketMakerTradeInitialized(Settle(Cur, r), r))

BestOffersReply ==
    /\ pc = "await_best_offers"
    /\ \E r \in BestOffersReplies : Commit(bestOffersDone(Settle(Cur, r), r))

MarketMakerTradeNext ==
    \/ MarketMakerTrade
    \/ MarketMakerTradeAuthReply
    \/ BestOffersReply
    \/ ContractAddressReply
    \/ AllowanceReply
    \/ ApprovalReply
    \/ ApprovalReceiptReply
    \/ TakeOfferReply
    \/ TakeOfferReceiptReply

MarketMakerTradeSpec == Init /\ [][MarketMakerTradeNext]_vars

-----------------------------------------------------------------------------
(* Market Maker: the approval and the take-offer *)

InTakeOffer == op \in {"takeOfferFixed", "takeOfferDynamic"}

Approvals == CallsOfKind(calls, "approve")
TakeOffers == CallsOfKind(calls, "takeOffer")

\* The allowance read by the call in progress was too small for the amount paid.
AllowanceShort ==
    \E i \in 1..Len(calls) :
        /\ calls[i].kind = "allowance"
        /\ HasSucceeded(calls[i])
        /\ calls[i].reply.allowance < options.withdrawalAmountPaid

AllowanceEnough ==
    \E i \in 1..Len(calls) :
        /\ calls[i].kind = "allowance"
        /\ HasSucceeded(calls[i])
        /\ calls[i].reply.allowance >= options.withdrawalAmountPaid

\* C28: with an allowance below the amount paid, the take-offer is submitted
\* only after an approval was submitted and its receipt came back
\* successful, so the two are never in flight together and a reverted or
\* unconfirmed approval ends the call without a take-offer; with an
\* allowance that suffices no approval is submitted.
C28_ApprovalConfirmedBeforeTakeOffer ==
    InTakeOffer =>
        /\ \A i \in 1..Len(calls) :
              (calls[i].kind = "takeOffer" /\ AllowanceShort) =>
                  /\ i > 2
                  /\ calls[i - 2].kind = "approve"
                  /\ calls[i - 2].reply.ok
                  /\ calls[i - 1].kind = "receipt"
                  /\ calls[i - 1].request.hash = calls[i - 2].reply.hash
                  /\ Confirmed(calls[i - 1].reply)
        /\ \A i \in 1..Len(calls) :
              (calls[i].kind = "approve" /\ i < Len(calls)) => HasSucceeded(calls[i])
        /\ (AllowanceShort /\ pc \notin {"await_approval", "await_approval_receipt"}
               /\ Len(TakeOffers) = 0) => Failed
        /\ AllowanceShort => Len(TakeOffers) <= Len(Approvals)
        /\ AllowanceEnough => Len(Approvals) = 0

C28_Witness ==
    /\ InTakeOffer
    /\ AllowanceShort
    /\ Len(Approvals) = 1
    /\ Len(TakeOffers) = 1
    /\ Succeeded

\* The typed error of a revert reason; the generic exception for any other.
TypedError(reason) ==
    IF reason = "OfferNotFound" THEN "OfferNotFoundError"
    ELSE IF reason = "OfferInactive" THEN "OfferInactiveError"
    ELSE IF reason = "InsufficientBalance" THEN "InsufficientOfferBalanceError"
    ELSE IF reason = "OfferExpired" THEN "OfferExpiredError"
    ELSE IF reason = "Unauthorized" THEN "UnauthorizedError"
    ELSE "MarketMakerWeb3Exception"

\* C29: when the take-offer transaction is reverted, the call fails with the
\* typed error of the revert reason (offer not found, inactive, insufficient
\* balance, expired, unauthorized), and with the generic
\* MarketMakerWeb3Exception only for a reason that is none of these.
C29_RevertReasonTypesTheError ==
    \A i \in 1..Len(calls) :
        (/\ InTakeOffer
         /\ calls[i].kind = "receipt"
         /\ i > 1
         /\ calls[i - 1].kind = "takeOffer"
         /\ HasSucceeded(calls[i])
         /\ calls[i].reply.receipt.status = "reverted")
            => Failed /\ outcome.error.name = TypedError(calls[i].reply.reason)

-----------------------------------------------------------------------------
(* The on-chain steps of both venues: confirmation timeouts *)

OnChainNext == CrossChainAccessNext \/ MarketMakerWeb3Next

OnChainSpec == Init /\ [][OnChainNext]_vars

\* The wait for a receipt ended with the timeout's error.
TimedOut(call) == call.kind = "receipt" /\ HasFailed(call)

SawTimeout == \E i \in 1..Len(calls) : TimedOut(calls[i])

\* The transactions a call submits.
Submissions ==
    SelectSeq(calls, LAMBDA c : c.kind \in {"transfer", "approve", "takeOffer"})

\* C26: when the wait for a confirmation times out, the call fails, it is
\* never reported as a success, and nothing is submitted after the timeout:
\* each transaction of the call was submitted once.
C26_TimeoutFailsWithoutResubmission ==
    (InBuyOrSell \/ InTakeOffer) =>
        /\ \A i \in 1..Len(calls) :
              TimedOut(calls[i]) => i = Len(calls) /\ Failed /\ ~Succeeded
        /\ \A i, j \in 1..Len(Submissions) :
              Submissions[i].kind = Submissions[j].kind => i = j

C26_Witness ==
    /\ InTakeOffer
    /\ SawTimeout
    /\ Len(TakeOffers) = 1
    /\ calls[Len(calls) - 1].kind = "takeOffer"
    /\ Failed

-----------------------------------------------------------------------------
(* trade(): the fallback after a transfer to the topup address *)

\* The execution failed after its transfer to the topup address was confirmed.
FailedAfterTransfer(execution) ==
    /\ execution.venue = CCA
    /\ HasFailed(execution)
    /\ "transfer" \in DOMAIN execution.reply

\* C27: once the execution on Cross-Chain Access has had its transfer
\* confirmed and then failed at the order submission, the same trade() call
\* requests no execution on Market Maker.
C27_NoFallbackAfterEscrowTransfer ==
    \A i \in 1..Len(Executions) :
        (op = "trade" /\ FailedAfterTransfer(Executions[i]))
            => \A j \in 1..Len(Executions) : Executions[j].venue # MM

-----------------------------------------------------------------------------
(* Calls made while another call on the same client is suspended at an await *)

\* What belongs to one call: its position, its arguments and locals, the
\* requests it has issued. The flags of the clients are shared.
FrameOf(s) ==
    [pc |-> s.pc, options |-> s.options, strategy |-> s.strategy, isBuy |-> s.isBuy,
     marketMakerOption |-> s.marketMakerOption,
     crossChainAccessOption |-> s.crossChainAccessOption,
     selected |-> s.selected, primaryError |-> s.primaryError,
     outcome |-> s.outcome, calls |-> s.calls, op |-> s.op, locals |-> s.locals]

\* The running call is set aside: a new call is about to start.
Suspend(s) == [s EXCEPT !.suspended = <<FrameOf(s)>>]

\* The suspended call becomes the running one, and the running one is set
\* aside, unless it has ended.
Switch(s) ==
    LET f == s.suspended[1]
    IN [s EXCEPT !.pc = f.pc, !.options = f.options, !.strategy = f.strategy,
                 !.isBuy = f.isBuy, !.marketMakerOption = f.marketMakerOption,
                 !.crossChainAccessOption = f.crossChainAccessOption,
                 !.selected = f.selected, !.primaryError = f.primaryError,
                 !.outcome = f.outcome, !.calls = f.calls, !.op = f.op,
                 !.locals = f.locals,
                 !.suspended = IF s.pc = "done" THEN <<>> ELSE <<FrameOf(s)>>]

AtAwait == pc \notin {"idle", "done"}

\* initialize() is called while the running call waits for a reply.
ConcurrentInitialize ==
    /\ AtAwait
    /\ suspended = <<>>
    /\ nCalls < MaxCalls
    /\ Commit(initialize(NewFrame(Suspend(Cur), "initialize", None)))

\* trade() is called while an initialize() waits for a reply.
ConcurrentTrade ==
    /\ AtAwait
    /\ op = "initialize"
    /\ suspended = <<>>
    /\ nCalls < MaxCalls
    /\ \E o \in TradeOptions : Commit(trade(NewCall(Suspend(Cur), o), o))

\* The reply the other call waits for is the next one to arrive: the event
\* loop resumes that call.
OtherCallResumes ==
    /\ suspended # <<>>
    /\ suspended[1].pc # "done"
    /\ Commit(Switch(Cur))

ConcurrentNext ==
    \/ Initialize
    \/ MarketMakerAuthReply
    \/ CrossChainAccessAuthReply
    \/ TopupAddressReply
    \/ MarketMakerQuoteReply
    \/ CrossChainAccessQuoteReply
    \/ PrimaryExecutionReply
    \/ FallbackExecutionReply
    \/ ConcurrentInitialize
    \/ ConcurrentTrade
    \/ OtherCallResumes

ConcurrentSpec == Init /\ [][ConcurrentNext]_vars

\* The requests of the running call and of the suspended one.
AllCalls == calls \o (IF suspended = <<>> THEN <<>> ELSE suspended[1].calls)

Handshakes == CallsOfKind(AllCalls, "auth")

\* C30: however initialize() and trade() calls on one client interleave, at
\* most one authentication handshake is in flight at a time and no venue
\* client completes its handshake twice.
C30_OneHandshakeAtATime ==
    /\ Cardinality({i \in 1..Len(Handshakes) : IsPending(Handshakes[i])}) <= 1
    /\ \A venue \in Platforms :
          Cardinality({i \in 1..Len(Handshakes) :
                          Handshakes[i].venue = venue /\ HasSucceeded(Handshakes[i])}) <= 1

-----------------------------------------------------------------------------
(* marketHours.ts on its own: the exported functions applied to an instant  *)

\* The instants: every weekday and hour; the minutes around the opening and
\* closing times and at both ends of the hour; the first and the last
\* millisecond of the minute and one in between.
InstantMinutes == {0, 1, 29, 30, 31, 59}
InstantSeconds == {<<0, 0>>, <<30, 500>>, <<59, 999>>}

Instants ==
    {UTCInstant(weekday, hour, minute, t[1], t[2]) :
        weekday \in 0..6, hour \in 0..23, minute \in InstantMinutes, t \in InstantSeconds}

MarketHoursInit ==
    /\ routingStrategy = BEST_PRICE
    /\ initialized = FALSE
    /\ mmInitialized = FALSE
    /\ ccaInitialized = FALSE
    /\ topupAddress = FALSE
    /\ pc = "marketHours"
    /\ options = None
    /\ strategy = Undefined
    /\ isBuy = FALSE
    /\ marketMakerOption = None
    /\ crossChainAccessOption = None
    /\ selected = None
    /\ primaryError = None
    /\ outcome = None
    /\ calls = <<>>
    /\ nCalls = 0
    /\ op = "none"
    /\ locals \in [date : Instants]
    /\ contractAddress = FALSE
    /\ suspended = <<>>
    /\ fetchers = NoFetchers
    /\ decimalsCache = EmptyMap

\* isMarketOpen(date)
IsMarketOpen ==
    /\ pc = "marketHours"
    /\ Commit(Return([Cur EXCEPT !.op = "isMarketOpen"], isMarketOpen(locals.date)))

\* timeUntilClose(date)
TimeUntilClose ==
    /\ pc = "marketHours"
    /\ Commit(Return([Cur EXCEPT !.op = "timeUntilClose"], timeUntilClose(locals.date)))

\* timeUntilOpen(date)
TimeUntilOpen ==
    /\ pc = "marketHours"
    /\ Commit(Return([Cur EXCEPT !.op = "timeUntilOpen"], timeUntilOpen(locals.date)))

MarketHoursNext ==
    \/ IsMarketOpen
    \/ TimeUntilClose
    \/ TimeUntilOpen

MarketHoursSpec == MarketHoursInit /\ [][MarketHoursNext]_vars

\* The instant is one of Monday to Friday, from 14:30:00.000 to 21:00:59.999.
MondayToFriday(date) == date.weekday \in 1..5

FromOpenToCloseMinute(date) ==
    /\ date.hour > 14 \/ (date.hour = 14 /\ date.minute >= 30)
    /\ date.hour < 21 \/ (date.hour = 21 /\ date.minute = 0)

Answered(operation) == pc = "done" /\ op = operation

\* C37: isMarketOpen(date) is true exactly when the UTC weekday is Monday to
\* Friday and the UTC time of day, taken to the minute, is from 14:30 to
\* 21:00, both included; on a Saturday or a Sunday it is false at every
\* instant.
C37_OpenExactlyInTradingHours ==
    Answered("isMarketOpen") =>
        /\ outcome.kind = "result"
        /\ outcome.result = (MondayToFriday(locals.date) /\ FromOpenToCloseMinute(locals.date))
        /\ locals.date.weekday \in {0, 6} => outcome.result = FALSE

\* isMarketOpen has answered true for an instant of the closing minute, and
\* false for a Saturday inside the hours.
C37_Witness ==
    /\ Answered("isMarketOpen")
    /\ \/ /\ locals.date = UTCInstant(5, 21, 0, 59, 999)
          /\ outcome.result = TRUE
       \/ /\ locals.date = UTCInstant(6, 15, 0, 0, 0)
          /\ outcome.result = FALSE

\* C38: at every instant at which isMarketOpen is true, timeUntilClose
\* returns a number of milliseconds that is not negative, the time left until
\* 21:00:00 UTC of that day; at every instant at which the market is closed
\* it returns 0.
C38_TimeUntilCloseNotNegative ==
    Answered("timeUntilClose") =>
        /\ outcome.kind = "result"
        /\ IF MondayToFriday(locals.date) /\ FromOpenToCloseMinute(locals.date)
           THEN outcome.result >= 0
           ELSE outcome.result = 0

-----------------------------------------------------------------------------
(* shared remoteConfig.ts: RemoteConfigFetcher and getConfigFetcher, and    *)
(* shared config.ts: getTopupAddress, getDotcManagerAddress; last step      *)
(* first                                                                    *)

\* new RemoteConfigFetcher(isDev)
RemoteConfigFetcher(isDev) ==
    [isDev |-> isDev, cache |-> None, lastFetch |-> None, fetchPromise |-> None]

configUrl(isDev) ==
    IF isDev
    THEN "https://swarm-sdk-configurations.s3.eu-central-1.amazonaws.com/config.dev.json"
    ELSE "https://swarm-sdk-configurations.s3.eu-central-1.amazonaws.com/config.prod.json"

ConfigurationNotLoaded == Err("Error", "Configuration not loaded. Call initialize() first.")

\* RemoteConfigFetcher.getTopupAddress()
fetcherGetTopupAddress(s, fetcher) ==
    IF fetcher.cache = None
    THEN Throw(s, ConfigurationNotLoaded)
    ELSE LET address == fetcher.cache.cross_chain_access_escrow
         IN IF ~Truthy(address)
            THEN Throw(s, Err("Error", "Topup address not found in configuration"))
            ELSE Return(s, address)

\* RemoteConfigFetcher.getMarketMakerManagerAddress(chainId)
fetcherGetMarketMakerManagerAddress(s, fetcher, chainId) ==
    IF fetcher.cache = None
    THEN Throw(s, ConfigurationNotLoaded)
    ELSE LET address == fetcher.cache.dotc_manager_addresses[chainId]
         IN IF ~Truthy(address)
            THEN Throw(s, Err("Error", "Market Maker Manager address not found for chain ID "
                                          \o chainId))
            ELSE Return(s, address)

\* `await getConfigFetcher(getIsDev())` has resolved with the singleton of
\* this name: config.ts calls the method the caller asked for.
configFetcherReturned(s, name) ==
    LET fetcher == s.fetchers[name]
    IN IF s.op = "getTopupAddress"
       THEN fetcherGetTopupAddress(s, fetcher)
       ELSE fetcherGetMarketMakerManagerAddress(s, fetcher, s.options.chainId)

\* The name of the module variable getConfigFetcher(isDev) works on.
fetcherName(isDev) == IF isDev THEN "devFetcher" ELSE "prodFetcher"

\* RemoteConfigFetcher.initialize after `await this.fetchConfig()`, and
\* getConfigFetcher after `await fetcher.initialize()`.
fetcherInitializeDone(s) ==
    LET name == fetcherName(s.options.isDev)
    IN IF s.fetchers[name].cache = None
       THEN Throw(s, Err("Error", "Failed to load configuration from remote: "
                                     \o configUrl(s.options.isDev)))
       ELSE configFetcherReturned(s, name)

\* fetchConfig after `await this.fetchPromise`: the finally block.
fetchConfigDone(s) ==
    fetcherInitializeDone([s EXCEPT !.fetchers[fetcherName(s.options.isDev)].fetchPromise = None])

\* doFetch after `await response.json()`; a rejection is caught and logged.
doFetchBodyDone(s, reply) ==
    IF reply.ok
    THEN fetchConfigDone([s EXCEPT !.fetchers[fetcherName(s.options.isDev)].cache = reply.body,
                                   !.fetchers[fetcherName(s.options.isDev)].lastFetch = Void])
    ELSE fetchConfigDone(s)

\* doFetch after `await fetch(this.configUrl, ...)`.
doFetchDone(s, reply) ==
    IF ~reply.ok THEN fetchConfigDone(s)
    ELSE IF ~responseOk(reply.status) THEN fetchConfigDone(s)
    ELSE Await(s, "json", "config", "await_config_body")

\* doFetch up to its first await.
doFetch(s) ==
    AwaitRequest(s, "fetch", "config", [url |-> configUrl(s.options.isDev)], "await_config")

\* fetchConfig up to its await: a fetch in progress is joined, otherwise one
\* is started and remembered.
fetchConfig(s) ==
    LET name == fetcherName(s.options.isDev)
    IN IF s.fetchers[name].fetchPromise # None
       THEN [s EXCEPT !.pc = "await_fetch_promise"]
       ELSE doFetch([s EXCEPT !.fetchers[name].fetchPromise = Pending])

\* getConfigFetcher(isDev) up to its await, or to its return.
getConfigFetcher(s, isDev) ==
    LET name == fetcherName(isDev)
    IN IF s.fetchers[name] = None
       THEN fetchConfig([s EXCEPT !.fetchers[name] = RemoteConfigFetcher(isDev)])
       ELSE configFetcherReturned(s, name)

\* config.ts getTopupAddress() and getDotcManagerAddress(chainId)
getTopupAddress(s) == getConfigFetcher(s, s.options.isDev)
getDotcManagerAddress(s) == getConfigFetcher(s, s.options.isDev)

\* The environment (getIsDev()) and the chain asked for.
ConfigRequests == [isDev : BOOLEAN, chainId : {"137"}]

\* What the remote file holds: both addresses, or neither.
RemoteConfigs ==
    {[cross_chain_access_escrow |-> "0xescrow", dotc_manager_addresses |-> [c \in {"137"} |-> "0xmanager"]],
     [cross_chain_access_escrow |-> Undefined, dotc_manager_addresses |-> [c \in {"137"} |-> Undefined]]}

ConfigFetchReplies ==
    {[ok |-> TRUE, status |-> 200], [ok |-> TRUE, status |-> 503],
     Fail(Err("TypeError", "fetch failed"))}

ConfigBodyReplies ==
    {[ok |-> TRUE, body |-> c] : c \in RemoteConfigs}
    \cup {Fail(Err("SyntaxError", "Unexpected end of JSON input"))}

GetTopupAddress ==
    /\ pc \in {"idle", "done"}
    /\ nCalls < MaxCalls
    /\ \E o \in ConfigRequests : Commit(getTopupAddress(NewFrame(Cur, "getTopupAddress", o)))

GetDotcManagerAddress ==
    /\ pc \in {"idle", "done"}
    /\ nCalls < MaxCalls
    /\ \E o \in ConfigRequests :
          Commit(getDotcManagerAddress(NewFrame(Cur, "getDotcManagerAddress", o)))

\* getTopupAddress() is called while the running call waits for a reply.
ConcurrentGetTopupAddress ==
    /\ AtAwait
    /\ suspended = <<>>
    /\ nCalls < MaxCalls
    /\ \E o \in ConfigRequests :
          Commit(getTopupAddress(NewFrame(Suspend(Cur), "getTopupAddress", o)))

ConfigFetchReply ==
    /\ pc = "await_config"
    /\ \E r \in ConfigFetchReplies : Commit(doFetchDone(Settle(Cur, r), r))

ConfigBodyReply ==
    /\ pc = "await_config_body"
    /\ \E r \in ConfigBodyReplies : Commit(doFetchBodyDone(Settle(Cur, r), r))

ConfigNext ==
    \/ GetTopupAddress
    \/ GetDotcManagerAddress
    \/ ConcurrentGetTopupAddress
    \/ ConfigFetchReply
    \/ ConfigBodyReply
    \/ OtherCallResumes

ConfigSpec == Init /\ [][ConfigNext]_vars

\* The call in this frame got a fetcher from getConfigFetcher and the
\* fetcher's method failed because no configuration was loaded.
GotUnloadedFetcher(frame) ==
    /\ frame.op \in {"getTopupAddress", "getDotcManagerAddress"}
    /\ frame.pc = "done"
    /\ frame.outcome.kind = "error"
    /\ frame.outcome.error = ConfigurationNotLoaded

\* C36: every RemoteConfigFetcher that getConfigFetcher returns has its
\* configuration loaded: getTopupAddress and getMarketMakerManagerAddress
\* never fail with "Configuration not loaded", whether getConfigFetcher calls
\* run concurrently or follow a failed initialization.
C36_ReturnedFetcherIsLoaded ==
    /\ ~GotUnloadedFetcher(FrameOf(Cur))
    /\ suspended # <<>> => ~GotUnloadedFetcher(suspended[1])

-----------------------------------------------------------------------------
(* shared web3/helpers.ts: Web3Helper.getTokenDecimals and its cache (the   *)
(* method of MarketMakerWeb3Client is the same code on its own cache)       *)

\* decimalsCache.set(key, value)
MapSet(map, key, value) ==
    [k \in DOMAIN map \cup {key} |-> IF k = key THEN value ELSE map[k]]

\* Variant: the default is remembered when the read fails.
tokenDecimalsDone_CachesDefault(s, reply) ==
    LET value == IF reply.ok THEN reply.decimals ELSE 18
    IN Return([s EXCEPT !.decimalsCache = MapSet(@, s.options.tokenAddress, value)], value)

\* getTokenDecimals after `await this.publicClient.readContract(...)`.
tokenDecimalsDone(s, reply) ==
    IF reply.ok
    THEN LET value == reply.decimals
         IN Return([s EXCEPT !.decimalsCache = MapSet(@, s.options.tokenAddress, value)], value)
    ELSE Return(s, 18)

\* getTokenDecimals(tokenAddress) up to its await, or to its return.
getTokenDecimals(s, tokenAddress) ==
    LET cacheKey == tokenAddress
    IN IF cacheKey \in DOMAIN s.decimalsCache
       THEN Return(s, s.decimalsCache[cacheKey])
       ELSE AwaitRequest(s, "readContract", "chain",
                         [address |-> tokenAddress, functionName |-> "decimals"],
                         "await_decimals")

\* The token contracts and what their decimals() returns: a constant of each
\* contract.
TokenAddresses == {"0xusdc", "0xrwa"}

OnChainDecimals(tokenAddress) == IF tokenAddress = "0xusdc" THEN 6 ELSE 18

\* The read returns the contract's value, or fails.
DecimalsReplies(tokenAddress) ==
    {[ok |-> TRUE, decimals |-> OnChainDecimals(tokenAddress)],
     Fail(Err("ContractFunctionExecutionError", "The contract function \"decimals\" reverted"))}

\* Up to MaxCalls + 1 lookups: two in flight together and one made after
\* the first of them has stored its value.
GetTokenDecimals ==
    /\ pc \in {"idle", "done"}
    /\ nCalls < MaxCalls + 1
    /\ \E a \in TokenAddresses :
          Commit(getTokenDecimals(NewFrame(Cur, "getTokenDecimals", [tokenAddress |-> a]), a))

\* getTokenDecimals is called while the running lookup waits for its read.
ConcurrentGetTokenDecimals ==
    /\ AtAwait
    /\ suspended = <<>>
    /\ nCalls < MaxCalls + 1
    /\ \E a \in TokenAddresses :
          Commit(getTokenDecimals(NewFrame(Suspend(Cur), "getTokenDecimals",
                                           [tokenAddress |-> a]), a))

TokenDecimalsReply ==
    /\ pc = "await_decimals"
    /\ \E r \in DecimalsReplies(options.tokenAddress) :
          Commit(tokenDecimalsDone(Settle(Cur, r), r))

TokenDecimalsNext ==
    \/ GetTokenDecimals
    \/ ConcurrentGetTokenDecimals
    \/ TokenDecimalsReply
    \/ OtherCallResumes

TokenDecimalsSpec == Init /\ [][TokenDecimalsNext]_vars

\* A step keeps every entry of the cache.
EntriesKept ==
    \A a \in DOMAIN decimalsCache :
        a \in DOMAIN decimalsCache' /\ decimalsCache'[a] = decimalsCache[a]

\* A step that is a call of getTokenDecimals.
LookupStarts == nCalls' = nCalls + 1 /\ op' = "getTokenDecimals"

\* The lookup that starts ends at once with the stored value, having read
\* nothing from the chain.
AnsweredFromCache ==
    /\ pc' = "done"
    /\ outcome' = [kind |-> "result", result |-> decimalsCache[options'.tokenAddress]]
    /\ calls' = <<>>

\* C40: once the decimals of an address are in the cache, no step of any
\* lookup, however the lookups interleave, changes or removes them, and every
\* lookup of that address made afterwards returns the stored value without
\* reading the chain.
C40_CachedDecimalsAreKept ==
    [][/\ EntriesKept
       /\ (LookupStarts /\ options'.tokenAddress \in DOMAIN decimalsCache)
              => AnsweredFromCache]_vars

\* A lookup has been answered from the cache while another lookup of the
\* same address, begun before the value was stored, still waits for its read.
C40_Witness ==
    /\ op = "getTokenDecimals"
    /\ pc = "done"
    /\ calls = <<>>
    /\ outcome = [kind |-> "result", result |-> 6]
    /\ decimalsCache["0xusdc"] = 6
    /\ suspended # <<>>
    /\ suspended[1].pc = "await_decimals"
    /\ suspended[1].options.tokenAddress = "0xusdc"

-----------------------------------------------------------------------------
(* trade(): the symbol handed to Cross-Chain Access *)

ExecutionsOn(venue) == SelectSeq(Executions, LAMBDA c : c.venue = venue)

\* C39: trade() executes on Cross-Chain Access, first or as the fallback,
\* only if the request has a toTokenSymbol: the symbol it hands to the venue
\* (options.toTokenSymbol!) is never undefined.
C39_CrossChainAccessExecutesWithSymbol ==
    \A i \in 1..Len(ExecutionsOn(CCA)) :
        /\ Truthy(options.toTokenSymbol)
        /\ ExecutionsOn(CCA)[i].request.rwaSymbol = options.toTokenSymbol

\* Cross-Chain Access has been tried as the fallback of a failed Market Maker
\* execution, with the symbol of the request.
C39_Witness ==
    /\ Len(Executions) = 2
    /\ Executions[1].venue = MM
    /\ Executions[2].venue = CCA
    /\ Executions[2].request.rwaSymbol = "AAPL"

-----------------------------------------------------------------------------
(* CrossChainAccessClient.executeTrade: the amounts and the funds *)

Transfers == CallsOfKind(calls, "transfer")

\* A JavaScript number that is finite and greater than 0.
FinitePositive(x) == x.d # 0 /\ x.n > 0

\* C32: buy and sell never submit an escrow transfer when the quoted price
\* for the order's side is zero or missing (a missing price is read as 0): a
\* trade whose derived quantities are not finite positive numbers is rejected
\* before any funds move.
C32_NoTransferAtZeroPrice ==
    (InBuyOrSell /\ Transfers # <<>>) =>
        /\ ~FIsZero(locals.price)
        /\ FinitePositive(locals.finalRwa)
        /\ FinitePositive(locals.finalUsdc)

\* a > b on JavaScript numbers.
FGt(a, b) == FLeq(b, a) /\ ~FLeq(a, b)

\* The reply of the funds or balance check of step 4, if it has arrived.
FundsChecks ==
    SelectSeq(calls, LAMBDA c : c.kind = "funds" /\ HasSucceeded(c))

BalanceChecks ==
    SelectSeq(calls, LAMBDA c : c.kind = "balance" /\ HasSucceeded(c))

\* The rounded amount of the trade is more than the account or wallet has.
BuyExceedsBuyingPower ==
    /\ op = BUY
    /\ FundsChecks # <<>>
    /\ FGt(locals.finalUsdc, FundsChecks[1].reply.funds.buyingPower)

SellExceedsBalance ==
    /\ op = SELL
    /\ BalanceChecks # <<>>
    /\ FGt(locals.finalRwa, BalanceChecks[1].reply.balance)

\* C34: a buy whose rounded USDC amount exceeds the buying power, and a sell
\* whose rounded asset quantity exceeds the wallet's balance of the asset,
\* fail with InsufficientFundsException; neither an on-chain transfer (nor any
\* step of it) nor an order submission is made.
C34_InsufficientFundsMoveNothing ==
    (BuyExceedsBuyingPower \/ SellExceedsBalance) =>
        /\ Failed
        /\ outcome.error.name = "InsufficientFundsException"
        /\ ~FundsMoved
        /\ calls[Len(calls)].kind \in {"funds", "balance"}

\* A sell of one unit from a wallet that holds none has failed at the
\* balance check.
C34_Witness ==
    /\ SellExceedsBalance
    /\ options.rwaAmount = Amount(1)
    /\ BalanceChecks[1].reply.balance = Num(0)
    /\ Failed

-----------------------------------------------------------------------------
(* Market Maker: how a take-offer that was submitted fails *)

\* The wait for the receipt of the take-offer of the call in progress has
\* ended: the receipt request follows the take-offer.
TakeOfferReceipts ==
    {i \in 2..Len(calls) :
        /\ calls[i].kind = "receipt"
        /\ calls[i - 1].kind = "takeOffer"
        /\ ~IsPending(calls[i])}

Reverted(call) == HasSucceeded(call) /\ call.reply.receipt.status = "reverted"

TransactionReverted == MarketMakerWeb3Exception("Transaction reverted")

\* C35: a take-offer whose receipt is reverted and a take-offer whose
\* confirmation times out both fail the attempt, and the errors differ: the
\* revert raises "Transaction reverted", the timeout an error with another
\* message that tells of the timeout.
C35_RevertAndTimeoutDiffer ==
    InTakeOffer =>
        \A i \in TakeOfferReceipts :
            /\ Reverted(calls[i]) =>
                  /\ Failed
                  /\ outcome.error = TransactionReverted
            /\ TimedOut(calls[i]) =>
                  /\ Failed
                  /\ outcome.error # TransactionReverted
                  /\ includes(outcome.error.message, calls[i].reply.error.message)

\* A fixed take-offer has timed out waiting for its confirmation.
C35_Witness ==
    /\ op = "takeOfferFixed"
    /\ \E i \in TakeOfferReceipts : TimedOut(calls[i])
    /\ Failed
    /\ outcome.error =
           MarketMakerWeb3Exception("Failed to take fixed offer: "
                                       \o "Timed out while waiting for transaction")

-----------------------------------------------------------------------------
(* MarketMakerClient.trade: the offers it takes *)

InMarketMakerTrade == op = "marketMakerTrade"

\* The offers the venue selected for the trade in progress, once known.
BestOffers == SelectSeq(calls, LAMBDA c : c.kind = "bestOffers" /\ HasSucceeded(c))

OffersSelected == BestOffers[1].reply.result.selectedOffers

\* A dynamic offer that carries no maximum rate.
RateMissing(offer) ==
    /\ offer.pricingType = "DynamicPricing"
    /\ offer.depositToWithdrawalRate \in {Undefined, ""}

\* The take-offer request that takes this offer by the method of its pricing
\* type.
TakesAsPriced(request, offer) ==
    IF offer.pricingType = "DynamicPricing"
    THEN /\ request.functionName = "takeOfferDynamic"
         /\ request.args = <<offer.id, BigInt(offer.withdrawalAmountPaid),
                             BigInt(offer.depositToWithdrawalRate), ZERO_ADDRESS>>
    ELSE /\ request.functionName = "takeOfferFixed"
         /\ request.args = <<offer.id, BigInt(offer.withdrawalAmountPaid), ZERO_ADDRESS>>

\* C31: in MarketMakerClient.trade, a selected offer with dynamic pricing and
\* no maximum rate aborts the trade with a MarketMakerWeb3Exception before
\* anything is sent to the chain (no allowance read, no approval, no
\* take-offer); otherwise the take-offer is made by the method of the offer's
\* pricing type, with the maximum rate for a dynamic offer.
C31_TakeOfferMatchesPricingType ==
    (InMarketMakerTrade /\ BestOffers # <<>> /\ OffersSelected # <<>>) =>
        IF RateMissing(OffersSelected[1])
        THEN /\ Failed
             /\ outcome.error.name = "MarketMakerWeb3Exception"
             /\ calls[Len(calls)].kind = "bestOffers"
        ELSE \A i \in 1..Len(TakeOffers) :
                 TakesAsPriced(TakeOffers[i].request, OffersSelected[1])

\* A dynamic offer without its rate has aborted the trade.
C31_Witness ==
    /\ InMarketMakerTrade
    /\ BestOffers # <<>>
    /\ OffersSelected # <<>>
    /\ RateMissing(OffersSelected[1])
    /\ Failed
    /\ outcome.error =
           MarketMakerWeb3Exception("Dynamic offer 9 missing depositToWithdrawalRate")

RECURSIVE PaidOnChain(_)
PaidOnChain(takeOffers) ==
    IF takeOffers = <<>> THEN 0
    ELSE (IF HasSucceeded(takeOffers[1]) THEN takeOffers[1].request.args[2] ELSE 0)
             + PaidOnChain(Tail(takeOffers))

\* C33: a trade that succeeds has taken every offer of the venue's
\* selectedOffers, so that the amount paid on-chain is the response's
\* totalWithdrawalAmountPaid; when selectedOffers is empty the trade fails
\* with NoOffersAvailableException and submits nothing.
C33_TakesEverySelectedOffer ==
    (InMarketMakerTrade /\ BestOffers # <<>>) =>
        /\ Succeeded =>
              /\ Len(TakeOffers) = Len(OffersSelected)
              /\ PaidOnChain(TakeOffers)
                     = BigInt(BestOffers[1].reply.result.totalWithdrawalAmountPaid)
        /\ OffersSelected = <<>> =>
              /\ Failed
              /\ outcome.error.name = "NoOffersAvailableException"
              /\ Submissions = <<>>

====
